---- MODULE Spec2Model ----
(***************************************************************************)
(* Job queue of vercel-locket (src/queue_manager.py): the in-memory job    *)
(* table, the pending FIFO, the single worker thread, the request threads  *)
(* that call add_to_queue / get_status, and the JSON snapshot file.        *)
(*                                                                         *)
(* Granularity: one action per critical section of self.lock, and one per  *)
(* file write.  _save_state is two steps (copy the table under self.lock,  *)
(* then write the file under the file lock), so that a snapshot taken by   *)
(* one thread can be written after a newer one of another thread.          *)
(* _load_state reads the file and applies it while it holds the file lock, *)
(* during which no writer can change the file: it is one step.             *)
(***************************************************************************)
EXTENDS Integers, Sequences, FiniteSets, TLC

\* ---------------------------------------------------------------- bounds
MaxJobs == 2          \* ids uuid4 hands out in one run of the model
MaxJobsLive == 3      \* the same, in the runs that are checked for progress
MaxTime == 1          \* the clock runs over 0..MaxTime ticks
MaxLoads == 1         \* runs of _load_state (at startup or from get_status)
MaxQueue == 3         \* cap on the pending queue (a reload can grow it)
MaxRejects == 2       \* submissions a request thread turns away
MaxSaveErrors == 2    \* runs of _save_state that fail
MaxTokens == 4        \* credentials in the stored set
SecondsPerTick == 700 \* seconds that pass when the clock ticks

\* ----------------------------------------------------- program constants
Retention == 600      \* _cleanup_old_requests: age > 600

Usernames == {"alice"}
Threads == {1, 2}     \* request threads of the web server
Ids == 1..MaxJobsLive
StatusIds == 0..MaxJobs   \* ids a client may poll; 0 was never issued

PyNone == "None"      \* Python None in a string- or dict-valued field
NoTime == -1          \* Python None in a datetime-valued field
JsonNull == <<>>      \* JSON null in a persisted timestamp field
NoJob == 0            \* current_processing = None / no client_id local

Terminal == {"completed", "error"}

VARIABLES
    client_requests,    \* self.client_requests: client_id -> request data
    queue,              \* self.queue (queue.Queue): sequence of client ids
    current_processing, \* self.current_processing
    lock,               \* holder of self.lock while a thread is stuck in it
    file,               \* queue_state.json: "client_requests" of the snapshot
    now,                \* datetime.now()
    next_id,            \* the next uuid4
    wpc, wcid, wstate,  \* worker thread: position, client_id, state to save
    cpc, cloc,          \* request threads: position and locals
    spc, scid, sloaded, \* get_status call: position, client_id, reload done
    loads,              \* how often _load_state has run on the file
    stats,              \* self.stats: total_unlocks, total_errors, daily_unlocks
    recent_activity,    \* self.recent_activity
    tokens, cursor,     \* token_store: the credential set and its rotation cursor
    pl,                 \* _process_request: its locals and what it has done
    ppc, ploc,          \* callers of the token store: position and locals
    plock,              \* the token store's lock: "free" or "held"
    hist,               \* the completed next() and ban() calls, in order
    redis_client,       \* redis_store.redis_client is not None
    mem_activity,       \* tracker._mem_activity
    redis_activity,     \* the Redis list locket_admin:recent_activity
    records,            \* calls of add_success and add_error so far
    error_records,      \* calls of add_error so far
    faults,             \* calls during which a Redis command raised
    tracker_stats,      \* tracker.stats: the Redis hashes or _mem_stats
    today,              \* the calendar date in the tracker's timezone
    recent_reply,       \* what the last get_recent / get_recent_activity returned
    gate, gpc,          \* the admission gate and the position of its callers
    disk,               \* what QUEUE_STATE_FILE names: a snapshot, a torn one, nothing
    tmp,                \* the temporary file of the _save_state that is running
    save_errors,        \* failures of the durable store that were caught and logged
    greply,             \* what the last get_global_status returned
    http,               \* the 400 answers of the web handlers so far, per request thread
    rate_limit_info,    \* LocketAPI.rate_limit_info
    tstore,             \* RedisTokenStore: its Redis key, and what list() last returned
    fstats              \* the "stats" of the snapshot at QUEUE_STATE_FILE

vars == <<client_requests, queue, current_processing, lock, file, now,
          next_id, wpc, wcid, wstate, cpc, cloc, spc, scid, sloaded, loads,
          stats, recent_activity, tokens, cursor, pl,
          ppc, ploc, plock, hist,
          redis_client, mem_activity, redis_activity, records, error_records,
          faults, tracker_stats, today, recent_reply,
          gate, gpc, disk, tmp, save_errors, greply, http,
          rate_limit_info, tstore, fstats>>

\* the job table, the queue, the snapshot and the threads of QueueManager
jobvars == <<client_requests, queue, current_processing, lock, file, now,
             next_id, wpc, wcid, wstate, cpc, cloc, spc, scid, sloaded, loads>>

\* the token store's callers and the statistics tracker
poolvars == <<ppc, ploc, plock, hist>>
ledgervars == <<redis_client, mem_activity, redis_activity, records,
                error_records, faults, tracker_stats, today, recent_reply>>

\* the admission gate, the state of the snapshot's path and the answers of
\* the web handlers
latevars == <<rate_limit_info, tstore, fstats>>
extravars == <<gate, gpc, disk, tmp, save_errors, greply, http, latevars>>

\* the activity feed, the counters and the credential pool, which the queue
\* operations leave alone
pipevars == <<stats, recent_activity, tokens, cursor, pl>>

\* ------------------------------------------------------------ conversions
\* datetime.isoformat(): the timestamp as a string
isoformat(t) == <<t>>
\* datetime.fromisoformat(): the string parsed back
fromisoformat(s) == s[1]

\* _save_state lines 60-66: "if req_data.get(k): req_data[k] = ....isoformat()"
SaveField(v) == IF v # NoTime THEN isoformat(v) ELSE JsonNull
\* _load_state lines 118-123: "if data.get(k): data[k] = fromisoformat(data[k])"
LoadField(s) == IF s # JsonNull THEN fromisoformat(s) ELSE NoTime

SaveRecord(d) ==
    [d EXCEPT !.added_at = SaveField(@), !.started_at = SaveField(@),
              !.completed_at = SaveField(@)]
LoadRecord(d) ==
    [d EXCEPT !.added_at = LoadField(@), !.started_at = LoadField(@),
              !.completed_at = LoadField(@)]

\* _save_state lines 58-67: the copy of the table taken under self.lock
SnapshotOf(table) == [c \in DOMAIN table |-> SaveRecord(table[c])]

\* ------------------------------------------------------------ _load_state
\* loaded_requests.sort(key=added_at): the sort is stable over the order of
\* the JSON object's keys, which the model does not keep; every order of the
\* persisted ids that is non-decreasing in added_at is a possible outcome.
SortedOrders(state) ==
    {s \in [1..Cardinality(DOMAIN state) -> DOMAIN state] :
        /\ \A i, j \in DOMAIN s : i # j => s[i] # s[j]
        /\ \A i, j \in DOMAIN s :
              i < j => LoadField(state[s[i]].added_at)
                          <= LoadField(state[s[j]].added_at)}

\* mutant: completed and error requests are put on the queue as well
RequeuedAll(d) == d.status \in {"waiting", "processing", "completed", "error"}

\* lines 130-139: which loaded requests are put on the queue
Requeued(d) == d.status \in {"waiting", "processing"}

\* mutant: an interrupted request keeps its status
DemoteKeepsStatus(d) == d

\* mutant: an interrupted request goes back to waiting with its started_at
DemoteKeepsStarted(d) ==
    IF d.status = "processing" THEN [d EXCEPT !.status = "waiting"] ELSE d

\* lines 134-137: an interrupted request goes back to waiting
Demote(d) ==
    IF d.status = "processing"
    THEN [d EXCEPT !.status = "waiting", !.started_at = NoTime]
    ELSE d

\* mutant: only the requests that are put on the queue are loaded
LoadedTablePendingOnly(table, state) ==
    [c \in DOMAIN table \union {x \in DOMAIN state : Requeued(state[x])} |->
        IF c \in DOMAIN state /\ Requeued(state[c])
        THEN Demote(LoadRecord(state[c])) ELSE table[c]]

\* lines 117-125, 134-137: the table after the load
LoadedTable(table, state) ==
    [c \in DOMAIN table \union DOMAIN state |->
        IF c \in DOMAIN state THEN Demote(LoadRecord(state[c])) ELSE table[c]]

\* lines 130-139: the queue after the load, for one sorted order
LoadedQueue(q, state, order) ==
    q \o SelectSeq(order, LAMBDA c : Requeued(state[c]))

\* ---------------------------------------------------------- token_store
\* config.TOKEN_SETS, the configured credentials in order: a complete set of
\* two, a set whose first entry lacks its fetch_token, and an empty set
Credential(name, complete) == [name |-> name, alive |-> TRUE, complete |-> complete]
TokenSets ==
    {<<Credential("K1", TRUE), Credential("K2", TRUE)>>,
     <<Credential("K1", FALSE), Credential("K2", TRUE)>>,
     <<>>}
DefaultTokens == <<Credential("K1", TRUE), Credential("K2", TRUE)>>

NoToken == 0          \* get_next_token() returned nothing

Live(toks) == {i \in 1..Len(toks) : toks[i].alive}
Least(S) == CHOOSE i \in S : \A j \in S : i <= j

\* mutant: the rotation does not look at the liveness flags
NextIndexAnyToken(toks, cur) ==
    IF toks = <<>> THEN NoToken ELSE IF cur < Len(toks) THEN cur + 1 ELSE 1

\* token_store.get_next_token(): the next live credential after the cursor in
\* configured order, wrapping around; nothing when none is live
NextIndex(toks, cur) ==
    IF Live(toks) = {} THEN NoToken
    ELSE IF \E i \in Live(toks) : i > cur
         THEN Least({i \in Live(toks) : i > cur})
         ELSE Least(Live(toks))

\* the cursor after get_next_token()
NextCursor(toks, cur) ==
    IF NextIndex(toks, cur) = NoToken THEN cur ELSE NextIndex(toks, cur)

\* mutant: the ban retires the entry after the named one
BanNextToken(toks, name) ==
    [i \in 1..Len(toks) |->
        IF i > 1 /\ toks[i - 1].name = name
        THEN [toks[i] EXCEPT !.alive = FALSE] ELSE toks[i]]

\* token_store.ban_token(name): the named credential is dead from now on
BanToken(toks, name) ==
    [i \in 1..Len(toks) |->
        IF toks[i].name = name THEN [toks[i] EXCEPT !.alive = FALSE] ELSE toks[i]]

\* -------------------------------------------------- api.restorePurchase
\* app.py's subscription_ids, handed to QueueManager
subscription_ids == {"locket_1600_1y", "locket_199_1m"}

\* What the receipts endpoint answers: response.ok, the status code, whether
\* the text has one of the dead-token phrases of line 165, whether the text
\* has "401" or "Unauthenticated" in it, and the Gold entitlement's
\* product_identifier.
Response(ok, code, dead, marked, product) ==
    [ok |-> ok, status_code |-> code, dead_text |-> dead, marked |-> marked,
     product |-> product]
Responses ==
    {Response(TRUE, 200, FALSE, FALSE, p) :
        p \in {"locket_199_1m", "locket_free", PyNone}}
    \union {Response(FALSE, c, d, m, PyNone) :
        c \in {401, 500}, d \in BOOLEAN, m \in BOOLEAN}

\* An exception: its message, and whether "401" or "Unauthenticated" occurs in
\* str(e) (lines 366 and 389 of queue_manager.py test that)
Exc(msg, marked) == [msg |-> msg, marked |-> marked]
NoExc == Exc(PyNone, FALSE)

\* line 165: the answers that prove the token dead
IsDeadToken(resp) == resp.status_code \in {401, 403} \/ resp.dead_text

\* lines 167-168: the message carries the response text, and for the other
\* failures the status code as well
RaisedBy(resp) ==
    IF IsDeadToken(resp)
    THEN Exc("Token dead", resp.marked)
    ELSE Exc("API request failed", resp.marked \/ resp.status_code = 401)

\* mutant: the request is posted although no token was selected
RestorePurchasePostsAnyway(toks, cur, resp) ==
    LET i == NextIndex(toks, cur)
    IN [exc |-> IF resp.ok THEN NoExc ELSE RaisedBy(resp),
        product |-> resp.product, posted |-> TRUE,
        pick |-> IF i = NoToken THEN PyNone ELSE toks[i].name,
        banned |-> {}, tokens |-> toks, cursor |-> NextCursor(toks, cur)]

\* restorePurchase lines 94-168 for one answer of the endpoint: the exception
\* raised if any, the product returned, whether the request was posted, the
\* token selected, the token banned, and the pool afterwards
RestorePurchase(toks, cur, resp) ==
    LET i == NextIndex(toks, cur)
        base == [exc |-> NoExc, product |-> PyNone, posted |-> FALSE,
                 pick |-> PyNone, banned |-> {}, tokens |-> toks,
                 cursor |-> NextCursor(toks, cur)]
    IN IF i = NoToken
       THEN [base EXCEPT !.exc = Exc("All tokens are dead", FALSE)]
       ELSE IF ~toks[i].complete
       THEN [base EXCEPT !.exc = Exc("Invalid TOKEN_SET config", FALSE),
                         !.pick = toks[i].name]
       ELSE IF resp.ok
       THEN [base EXCEPT !.product = resp.product, !.posted = TRUE,
                         !.pick = toks[i].name]
       ELSE IF IsDeadToken(resp)
       THEN [base EXCEPT !.exc = RaisedBy(resp), !.posted = TRUE,
                         !.pick = toks[i].name, !.banned = {toks[i].name},
                         !.tokens = BanToken(toks, toks[i].name)]
       ELSE [base EXCEPT !.exc = RaisedBy(resp), !.posted = TRUE,
                         !.pick = toks[i].name]

\* --------------------------------------------- token_store and its callers
\* The pool as the spec describes it: get_next_token() and ban_token() each
\* read the credential set and the cursor and write them back inside one
\* consistency domain, here a lock of the store. A caller is a thread inside
\* restorePurchase: it selects a credential (line 94), posts its request, and
\* bans the credential when the answer proves it dead (line 166).
Callers == {1, 2}
MaxPoolOps == 5       \* next() calls begin while fewer operations are logged
PoolTokenSets ==
    TokenSets \union
        {<<Credential("K1", TRUE), Credential("K2", TRUE), Credential("K3", TRUE)>>}

\* a completed operation of the pool: next() with the index it returned
\* (NoToken when it found none), ban() with the index it retired
Ev(op, i) == [op |-> op, i |-> i]
NoPoolLocals == [toks |-> <<>>, cur |-> 0, pick |-> NoToken]

\* mutant: the operations do not wait for each other
PoolLockIgnored == TRUE

\* the store's consistency domain is free
PoolLockFree == plock = "free"

PoolFrame ==
    UNCHANGED <<jobvars, stats, recent_activity, pl, ledgervars, extravars>>

\* get_next_token() enters: it reads the credential set and the cursor
NextBegin(c) ==
    /\ ppc[c] = "idle"
    /\ PoolLockFree
    /\ Len(hist) < MaxPoolOps
    /\ plock' = "held"
    /\ ploc' = [ploc EXCEPT ![c] = [toks |-> tokens, cur |-> cursor, pick |-> NoToken]]
    /\ ppc' = [ppc EXCEPT ![c] = "next"]
    /\ UNCHANGED <<tokens, cursor, hist>>
    /\ PoolFrame

\* get_next_token() returns: it writes the cursor and hands out the credential
NextEnd(c) ==
    /\ ppc[c] = "next"
    /\ LET i == NextIndex(ploc[c].toks, ploc[c].cur)
       IN /\ cursor' = NextCursor(ploc[c].toks, ploc[c].cur)
          /\ hist' = Append(hist, Ev("next", i))
          /\ ploc' = [ploc EXCEPT ![c].pick = i]
          /\ ppc' = [ppc EXCEPT ![c] = IF i = NoToken THEN "idle" ELSE "holding"]
    /\ plock' = "free"
    /\ UNCHANGED tokens
    /\ PoolFrame

\* api.py lines 155-161: the request of the caller is answered and the
\* answer does not prove the credential dead
PoolAnswer(c) ==
    /\ ppc[c] = "holding"
    /\ ppc' = [ppc EXCEPT ![c] = "idle"]
    /\ UNCHANGED <<tokens, cursor, hist, ploc, plock>>
    /\ PoolFrame

\* api.py lines 165-166: the answer proves the credential dead; ban_token()
\* enters and reads the credential set
BanBegin(c) ==
    /\ ppc[c] = "holding"
    /\ PoolLockFree
    /\ plock' = "held"
    /\ ploc' = [ploc EXCEPT ![c].toks = tokens, ![c].cur = cursor]
    /\ ppc' = [ppc EXCEPT ![c] = "ban"]
    /\ UNCHANGED <<tokens, cursor, hist>>
    /\ PoolFrame

\* ban_token() returns: it writes the credential set with the entry retired
BanEnd(c) ==
    /\ ppc[c] = "ban"
    /\ tokens' = BanToken(ploc[c].toks, ploc[c].toks[ploc[c].pick].name)
    /\ hist' = Append(hist, Ev("ban", ploc[c].pick))
    /\ ppc' = [ppc EXCEPT ![c] = "idle"]
    /\ plock' = "free"
    /\ UNCHANGED <<cursor, ploc>>
    /\ PoolFrame

\* ------------------------------------------------------ RedisStatsTracker
MaxRecords == 26        \* calls of add_success and add_error
MaxErrorRecords == 1    \* of which add_error
MaxFaults == 1          \* calls during which a Redis command raises
LedgerCap == 20         \* [:20], ltrim(ACTIVITY_KEY, 0, 19)

\* an activity record: the serial number of the call stands for its
\* timestamp and username
Entry(n, status) == [n |-> n, status |-> status]

\* list[:k]
Prefix(list, k) == SubSeq(list, 1, IF Len(list) < k THEN Len(list) ELSE k)

\* lines 158-165, 194-201: insert(0, ...) and [:20]
MemAdd(feed, e) == Prefix(<<e>> \o feed, LedgerCap)

\* redis lpush and ltrim(key, 0, hi)
LPush(list, e) == <<e>> \o list
LTrim(list, hi) == Prefix(list, hi + 1)

\* What Redis does during one call: every command succeeds, or the update of
\* the total, the update of the date bucket, the lpush or the ltrim raises;
\* the except clause logs it.
RedisOutcomes == {"ok", "fail_incr", "fail_daily", "fail_push", "fail_trim"}

\* lines 168-187, 204-217
RedisAdd(list, e, outcome) ==
    IF outcome = "ok" THEN LTrim(LPush(list, e), LedgerCap - 1)
    ELSE IF outcome = "fail_trim" THEN LPush(list, e)
    ELSE list

MaxDay == 1             \* calendar dates 0..MaxDay
Days == 0..MaxDay

\* __init__ lines 117-121; a date without a bucket counts 0
NoStats ==
    [total_unlocks |-> 0, total_errors |-> 0, daily_unlocks |-> [d \in Days |-> 0]]

\* lines 155-156 and 170-171: the total, then the bucket of today
CountSuccess(st, day, outcome) ==
    IF outcome = "fail_incr" THEN st
    ELSE IF outcome = "fail_daily"
    THEN [st EXCEPT !.total_unlocks = @ + 1]
    ELSE [st EXCEPT !.total_unlocks = @ + 1, !.daily_unlocks[day] = @ + 1]

\* lines 192 and 205: the total of the errors, and no bucket
CountError(st, outcome) ==
    IF outcome = "fail_incr" THEN st ELSE [st EXCEPT !.total_errors = @ + 1]

\* nothing was asked of get_recent since the last record
NoReply == [limit |-> 0, entries |-> <<>>, asked |-> FALSE, of |-> "nobody"]

LedgerFrame ==
    UNCHANGED <<jobvars, pipevars, poolvars, redis_client, today, extravars>>

\* add_success / add_error: one call, in the mode the process runs in
LedgerAdd(status, outcome) ==
    /\ records < MaxRecords
    /\ records' = records + 1
    /\ recent_reply' = NoReply
    /\ IF redis_client
       THEN /\ outcome # "ok" => faults < MaxFaults
            /\ faults' = IF outcome = "ok" THEN faults ELSE faults + 1
            /\ redis_activity' = RedisAdd(redis_activity, Entry(records + 1, status), outcome)
            /\ UNCHANGED mem_activity
       ELSE /\ outcome = "ok"
            /\ mem_activity' = MemAdd(mem_activity, Entry(records + 1, status))
            /\ UNCHANGED <<redis_activity, faults>>
    /\ LedgerFrame

\* lines 150-187
LedgerAddSuccess(outcome) ==
    /\ LedgerAdd("success", outcome)
    /\ tracker_stats' = CountSuccess(tracker_stats, today, outcome)
    /\ UNCHANGED error_records

\* lines 189-217
LedgerAddError(outcome) ==
    /\ error_records < MaxErrorRecords
    /\ outcome # "fail_daily"
    /\ error_records' = error_records + 1
    /\ LedgerAdd("error", outcome)
    /\ tracker_stats' = CountError(tracker_stats, outcome)

\* datetime.now(vn_tz) moves on to the next calendar date
LedgerDayPasses ==
    /\ today < MaxDay
    /\ today' = today + 1
    /\ UNCHANGED <<jobvars, pipevars, poolvars, redis_client, mem_activity,
                   redis_activity, records, error_records, faults,
                   tracker_stats, recent_reply, extravars>>

\* what the ledger holds: get_recent reads the Redis list when there is a
\* client, the in-memory list otherwise (lines 220-225)
Recent == IF redis_client THEN redis_activity ELSE mem_activity

\* ------------------------------------------------------------------ Init
NoLocals == [client_id |-> NoJob, request_data |-> PyNone, state |-> <<>>]

\* _process_request has not run yet
NoPipe ==
    [username |-> PyNone, lookups |-> 0, posts |-> 0, refreshes |-> 0,
     picks |-> <<>>, bans |-> {}, resolved |-> FALSE, idresp |-> PyNone,
     exc |-> NoExc, product |-> PyNone, returned |-> FALSE, dead |-> <<>>]

\* api.py lines 12-17: no response has been seen
PyNoneValue == [type |-> "NoneType", text |-> ""]
RateFields == {"remaining", "limit", "reset"}
NoRateLimit ==
    [remaining |-> PyNoneValue, limit |-> PyNoneValue, reset |-> PyNoneValue,
     last_updated |-> NoTime,
     headers |-> [f \in RateFields |-> "absent"]]  \* of the last response seen

\* the Redis key of the credential set exists, and list() was not asked
NoStore == [key |-> TRUE, cleared |-> FALSE, asked |-> FALSE, listed |-> <<>>]

\* get_global_status has not been asked
NoGlobalReply == [status |-> "none", total_queue |-> 0, asked |-> FALSE]

\* __init__ lines 16-28
\* __init__ lines 24-29: the counters of a new QueueManager
NoCounts == [total_unlocks |-> 0, total_errors |-> 0, daily_unlocks |-> 0]

InitQueue ==
    /\ client_requests = <<>>
    /\ queue = <<>>
    /\ current_processing = NoJob
    /\ lock = "free"
    /\ file = <<>>
    /\ now = 0
    /\ next_id = 1
    /\ wpc = "get" /\ wcid = NoJob /\ wstate = <<>>
    /\ cpc = [t \in Threads |-> "idle"]
    /\ cloc = [t \in Threads |-> NoLocals]
    /\ spc = "idle" /\ scid = NoJob /\ sloaded = FALSE
    /\ loads = 0
    /\ stats = NoCounts
    /\ fstats = NoCounts
    /\ recent_activity = <<>>
    /\ cursor = 0
    /\ pl = NoPipe
    /\ ppc = [c \in Callers |-> "idle"]
    /\ ploc = [c \in Callers |-> NoPoolLocals]
    /\ plock = "free"
    /\ hist = <<>>
    /\ mem_activity = <<>>
    /\ redis_activity = <<>>
    /\ records = 0
    /\ error_records = 0
    /\ faults = 0
    /\ tracker_stats = NoStats
    /\ today = 0
    /\ recent_reply = NoReply
    /\ gate = "free"
    /\ gpc = [c \in Callers |-> "idle"]
    /\ tmp = "none"
    /\ save_errors = 0
    /\ greply = NoGlobalReply
    /\ http = [t \in Threads |-> 0]
    /\ rate_limit_info = NoRateLimit
    /\ tstore = NoStore

\* a snapshot is at QUEUE_STATE_FILE when the process starts
InitDisk == disk = "complete"

Init == InitQueue /\ InitDisk /\ tokens = DefaultTokens /\ redis_client = FALSE

\* A request thread slot takes a request only when the lower slots are busy
\* (the threads are interchangeable).
MayStart(t) == cpc[t] = "idle" /\ \A u \in Threads : u < t => cpc[u] # "idle"

\* ----------------------------------------------------------- add_to_queue
\* lines 151-160: the id and the request data, built before the lock
NewRequest(username, t) ==
    [username |-> username, status |-> "waiting", result |-> PyNone,
     error |-> PyNone, added_at |-> t, started_at |-> NoTime,
     completed_at |-> NoTime]

AddBeginUpTo(t, username, cap) ==
    /\ MayStart(t)
    /\ next_id <= cap
    /\ cloc' = [cloc EXCEPT ![t] = [client_id |-> next_id,
                                    request_data |-> NewRequest(username, now),
                                    state |-> <<>>]]
    /\ next_id' = next_id + 1
    /\ cpc' = [cpc EXCEPT ![t] = "add_lock"]
    /\ UNCHANGED <<client_requests, queue, current_processing, lock, file,
                   now, wpc, wcid, wstate, loads, spc, scid, sloaded>>
    /\ UNCHANGED <<pipevars, poolvars, ledgervars, extravars>>

AddBegin(t, username) == AddBeginUpTo(t, username, MaxJobs)
AddBeginLive(t, username) == AddBeginUpTo(t, username, MaxJobsLive)

\* lines 162-164: under self.lock, the table entry and queue.put
AddTable(table, cid, data) ==
    [c \in DOMAIN table \union {cid} |-> IF c = cid THEN data ELSE table[c]]
AddQueue(q, cid) == Append(q, cid)

AddLocked(t) ==
    /\ cpc[t] = "add_lock"
    /\ lock = "free"
    /\ Len(queue) < MaxQueue
    /\ client_requests' =
          AddTable(client_requests, cloc[t].client_id, cloc[t].request_data)
    /\ queue' = AddQueue(queue, cloc[t].client_id)
    /\ cpc' = [cpc EXCEPT ![t] = "save_copy"]
    /\ UNCHANGED <<current_processing, lock, file, now, next_id, wpc, wcid,
                   wstate, cloc, loads, spc, scid, sloaded>>
    /\ UNCHANGED <<pipevars, poolvars, ledgervars, extravars>>

\* line 167, _save_state lines 58-67
AddSaveCopy(t) ==
    /\ cpc[t] = "save_copy"
    /\ lock = "free"
    /\ cloc' = [cloc EXCEPT ![t].state = SnapshotOf(client_requests)]
    /\ cpc' = [cpc EXCEPT ![t] = "save_write"]
    /\ UNCHANGED <<client_requests, queue, current_processing, lock, file,
                   now, next_id, wpc, wcid, wstate, loads, spc, scid, sloaded>>
    /\ UNCHANGED <<pipevars, poolvars, ledgervars, extravars>>

\* _save_state lines 69-82 (os.replace), then add_to_queue returns (line 168)
AddSaveWrite(t) ==
    /\ cpc[t] = "save_write"
    /\ file' = cloc[t].state
    /\ cpc' = [cpc EXCEPT ![t] = "idle"]
    /\ cloc' = [cloc EXCEPT ![t] = NoLocals]
    /\ UNCHANGED <<client_requests, queue, current_processing, lock, now,
                   next_id, wpc, wcid, wstate, loads, spc, scid, sloaded>>
    /\ disk' = "complete"
    /\ fstats' = stats
    /\ UNCHANGED <<pipevars, poolvars, ledgervars, gate, gpc, tmp, save_errors,
                   greply, http, rate_limit_info, tstore>>

\* ------------------------------------------------ app.py: /api/restore
\* what a client sends as "username": nothing, the empty string, a name
Submitted == {PyNone, ""} \union Usernames

\* mutant: every submitted username passes
TruthyAny(v) == TRUE

\* line 575, "if not username": Python's truth of data.get("username")
Truthy(v) == v # PyNone /\ v # ""

\* lines 575-576: the handler answers 400 "Username is required"
RestoreReject(t, username) ==
    /\ MayStart(t)
    /\ ~Truthy(username)
    /\ http[t] < MaxRejects
    /\ http' = [http EXCEPT ![t] = @ + 1]
    /\ UNCHANGED <<jobvars, pipevars, poolvars, ledgervars, gate, gpc, disk,
                   tmp, save_errors, greply,
                   latevars>>

\* line 580: the handler calls queue_manager.add_to_queue(username)
RestoreAdmit(t, username) ==
    /\ Truthy(username)
    /\ AddBegin(t, username)

\* lines 564-597, the handler of POST /api/restore
restore_purchase(t, username) ==
    \/ RestoreReject(t, username)
    \/ RestoreAdmit(t, username)

\* ------------------------------------------------------------- get_status
IndexOf(q, cid) == CHOOSE i \in 1..Len(q) : q[i] = cid /\ \A j \in 1..(i-1) : q[j] # cid
InQueue(q, cid) == \E i \in 1..Len(q) : q[i] = cid

\* _get_position lines 258-271
_get_position(table, q, current, cid) ==
    IF current = cid THEN 0
    ELSE IF InQueue(q, cid) THEN IndexOf(q, cid)
    ELSE 0

\* lines 227-256: the answer, computed under self.lock
StatusReply(table, q, current, cid) ==
    IF cid \notin DOMAIN table
    THEN [client_id |-> cid, status |-> "not_found", position |-> 0,
          total_queue |-> Len(q), result |-> PyNone, error |-> "Request not found"]
    ELSE [client_id |-> cid, status |-> table[cid].status,
          position |-> _get_position(table, q, current, cid),
          total_queue |-> Len(q) + (IF current # NoJob /\ current # cid THEN 1 ELSE 0),
          result |-> table[cid].result, error |-> table[cid].error]

\* lines 223-225: the id is looked up without the lock, and _load_state runs
\* when it is missing (and the state file exists: line 97)
Reloads(table, state, cid) == cid \notin DOMAIN table /\ DOMAIN state # {}

\* lines 223-225: the lookup and, for an unknown id, _load_state.  read says
\* whether _load_state gets the file lock within its timeout (lines 100-102)
\* or gives up (lines 146-147).
GetStatusLookup(cid, read) ==
    /\ spc = "idle"
    /\ IF Reloads(client_requests, file, cid) /\ read
       THEN \E order \in SortedOrders(file) :
              /\ lock = "free"
              /\ loads < MaxLoads
              /\ loads' = loads + 1
              /\ Len(LoadedQueue(queue, file, order)) <= MaxQueue
              /\ client_requests' = LoadedTable(client_requests, file)
              /\ queue' = LoadedQueue(queue, file, order)
              /\ stats' = fstats      \* lines 111-112: self.stats.update
              /\ sloaded' = TRUE
       ELSE /\ Reloads(client_requests, file, cid) \/ read
            /\ sloaded' = FALSE
            /\ UNCHANGED <<client_requests, queue, loads, stats>>
    /\ spc' = "reply"
    /\ scid' = cid
    /\ UNCHANGED <<current_processing, lock, file, now, next_id, wpc, wcid,
                   wstate, cpc, cloc>>
    /\ UNCHANGED <<recent_activity, tokens, cursor, pl, poolvars, ledgervars,
                   extravars>>

\* lines 227-256: the reply is computed under self.lock and returned
GetStatusReply ==
    /\ spc = "reply"
    /\ lock = "free"
    /\ spc' = "idle"
    /\ scid' = NoJob
    /\ sloaded' = FALSE
    /\ UNCHANGED <<client_requests, queue, current_processing, lock, file,
                   now, next_id, wpc, wcid, wstate, cpc, cloc, loads>>
    /\ UNCHANGED <<pipevars, poolvars, ledgervars, extravars>>

\* ------------------------------------------------------ get_global_status
\* lines 172-188: queue.qsize(), plus one when current_processing is set
GlobalStatus(q, current) ==
    LET total_waiting == Len(q) + (IF current # NoJob THEN 1 ELSE 0)
    IN [status |-> IF total_waiting = 0 THEN "idle" ELSE "active",
        total_queue |-> total_waiting,
        asked |-> TRUE]

\* a client polls /api/queue/global-status: the call, under self.lock
GlobalStatusCall ==
    /\ ~greply.asked
    /\ lock = "free"
    /\ greply' = GlobalStatus(queue, current_processing)
    /\ UNCHANGED <<jobvars, pipevars, poolvars, ledgervars, gate, gpc, disk,
                   tmp, save_errors, http,
                   latevars>>

\* the answer has gone to the client
GlobalStatusReturn ==
    /\ greply.asked
    /\ greply' = NoGlobalReply
    /\ UNCHANGED <<jobvars, pipevars, poolvars, ledgervars, gate, gpc, disk,
                   tmp, save_errors, http,
                   latevars>>

\* ---------------------------------------------------------- worker thread
\* _process_queue line 287: queue.get takes the head of the queue; the queue
\* has its own mutex, self.lock is not held
WorkerGet ==
    /\ wpc = "get"
    /\ queue # <<>>
    /\ queue' = Tail(queue)
    /\ wcid' = Head(queue)
    /\ wpc' = "mark"
    /\ UNCHANGED <<client_requests, current_processing, lock, file, now,
                   next_id, wstate, cpc, cloc, loads, spc, scid, sloaded>>
    /\ UNCHANGED <<pipevars, poolvars, ledgervars, extravars>>

\* lines 293-295
MarkProcessing(table, cid, t) ==
    [table EXCEPT ![cid].status = "processing", ![cid].started_at = t]

\* lines 289-295: under self.lock, an id that is not in the table is dropped
\* (continue), any other is marked processing
WorkerMark ==
    /\ wpc = "mark"
    /\ lock = "free"
    /\ IF wcid \notin DOMAIN client_requests
       THEN /\ wpc' = "get"
            /\ wcid' = NoJob
            /\ UNCHANGED <<client_requests, current_processing>>
       ELSE /\ current_processing' = wcid
            /\ client_requests' = MarkProcessing(client_requests, wcid, now)
            /\ wpc' = "save_copy_1"
            /\ wcid' = wcid
    /\ UNCHANGED <<queue, lock, file, now, next_id, wstate, cpc, cloc, loads,
                   spc, scid, sloaded>>
    /\ UNCHANGED <<pipevars, poolvars, ledgervars, extravars>>

\* _save_state lines 58-67, called from lines 297 and 316
WorkerSaveCopy ==
    /\ wpc \in {"save_copy_1", "save_copy_2"}
    /\ lock = "free"
    /\ wstate' = SnapshotOf(client_requests)
    /\ wpc' = IF wpc = "save_copy_1" THEN "save_write_1" ELSE "save_write_2"
    /\ UNCHANGED <<client_requests, queue, current_processing, lock, file,
                   now, next_id, wcid, cpc, cloc, loads, spc, scid, sloaded>>
    /\ UNCHANGED <<pipevars, poolvars, ledgervars, extravars>>

\* _save_state lines 69-82
WorkerSaveWrite ==
    /\ wpc \in {"save_write_1", "save_write_2"}
    /\ file' = wstate
    /\ wstate' = <<>>
    /\ wpc' = IF wpc = "save_write_1" THEN "process" ELSE "cleanup"
    /\ UNCHANGED <<client_requests, queue, current_processing, lock, now,
                   next_id, wcid, cpc, cloc, loads, spc, scid, sloaded>>
    /\ disk' = "complete"
    /\ fstats' = stats
    /\ UNCHANGED <<pipevars, poolvars, ledgervars, gate, gpc, tmp, save_errors,
                   greply, http, rate_limit_info, tstore>>

\* _process_request lines 409-415 and 431-436: the terminal status
SetOutcome(table, cid, outcome) ==
    IF cid \notin DOMAIN table THEN table
    ELSE IF outcome = "completed"
    THEN [table EXCEPT ![cid].status = "completed", ![cid].result = "success"]
    ELSE [table EXCEPT ![cid].status = "error", ![cid].error = "message"]

\* _process_request: the collaborators answer, and the request ends
\* completed or error
WorkerProcess(outcome) ==
    /\ wpc = "process"
    /\ lock = "free"
    /\ client_requests' = SetOutcome(client_requests, wcid, outcome)
    /\ wpc' = "complete"
    /\ UNCHANGED <<queue, current_processing, lock, file, now, next_id, wcid,
                   wstate, cpc, cloc, loads, spc, scid, sloaded>>
    /\ UNCHANGED <<pipevars, poolvars, ledgervars, extravars>>

\* _process_queue lines 303-314.  completed - started raises TypeError when
\* started_at is None; lines 325-328 catch it and the loop goes on at once.
StampCompleted(table, cid, t) ==
    IF cid \in DOMAIN table THEN [table EXCEPT ![cid].completed_at = t] ELSE table

DurationRaises(table, cid) ==
    cid \in DOMAIN table /\ table[cid].started_at = NoTime

WorkerComplete ==
    /\ wpc = "complete"
    /\ lock = "free"
    /\ current_processing' = NoJob
    /\ client_requests' = StampCompleted(client_requests, wcid, now)
    /\ wpc' = IF DurationRaises(client_requests, wcid) THEN "get" ELSE "save_copy_2"
    /\ wcid' = IF DurationRaises(client_requests, wcid) THEN NoJob ELSE wcid
    /\ UNCHANGED <<queue, lock, file, now, next_id, wstate, cpc, cloc, loads, spc, scid, sloaded>>
    /\ UNCHANGED <<pipevars, poolvars, ledgervars, extravars>>

\* mutant: the age of a terminal request is not looked at
ExpiredAtAnyAge(d, t) == d.status \in Terminal

\* _cleanup_old_requests lines 333-342
Expired(d, t) ==
    /\ d.status \in Terminal
    /\ d.completed_at # NoTime
    /\ (t - d.completed_at) * SecondsPerTick > Retention

ToRemove(table, t) == {c \in DOMAIN table : Expired(table[c], t)}

\* lines 344-345
Remove(table, gone) == [c \in DOMAIN table \ gone |-> table[c]]

\* lines 348-349: _save_state is called with self.lock held, and its own
\* "with self.lock" (line 58) never returns: threading.Lock is not reentrant
CleanupBlocks(table, t) == ToRemove(table, t) # {}

WorkerCleanup ==
    /\ wpc = "cleanup"
    /\ lock = "free"
    /\ client_requests' = Remove(client_requests, ToRemove(client_requests, now))
    /\ IF CleanupBlocks(client_requests, now)
       THEN lock' = "worker" /\ wpc' = "cleanup_save"
       ELSE lock' = lock /\ wpc' = "sleep"
    /\ UNCHANGED <<queue, current_processing, file, now, next_id, wcid,
                   wstate, cpc, cloc, loads, spc, scid, sloaded>>
    /\ UNCHANGED <<pipevars, poolvars, ledgervars, extravars>>

\* lines 319-321: task_done and the five seconds of sleep
WorkerSleep ==
    /\ wpc = "sleep"
    /\ wpc' = "get"
    /\ wcid' = NoJob
    /\ UNCHANGED <<client_requests, queue, current_processing, lock, file,
                   now, next_id, wstate, cpc, cloc, loads, spc, scid, sloaded>>
    /\ UNCHANGED <<pipevars, poolvars, ledgervars, extravars>>

\* ------------------------------------------------------- _process_request
\* The pipeline step by step, as the worker runs it between its two saves.
\* WorkerProcess above is the same call taken as one step and seen from the
\* job table only.
IdResponses ==
    {"ok", "no_result", "no_data", "no_uid",
     "raise_not_found", "raise_marked", "raise_other"}

\* getUserByUsername raised: api.py line 51 (user not found), or any other
\* exception, with or without "401" / "Unauthenticated" in its text
LookupExc(r) ==
    IF r = "raise_not_found" THEN Exc("User not found or UID extraction failed", FALSE)
    ELSE IF r = "raise_marked" THEN Exc("Unauthenticated", TRUE)
    ELSE IF r = "raise_other" THEN Exc("Lookup failed", FALSE)
    ELSE NoExc

\* mutant: the answer of the lookup is not examined
ValidateNothing(r) == NoExc

\* lines 375-384: what is raised on an answer without result, data or uid
Validate(r) ==
    IF r = "no_result" THEN Exc("User not found or API error", FALSE)
    ELSE IF r = "no_data" THEN Exc("User data not found", FALSE)
    ELSE IF r = "no_uid" THEN Exc("UID not found for user", FALSE)
    ELSE NoExc

ActivityCap == 20     \* line 422: len(self.recent_activity) > 20

\* self.recent_activity[-20:]
KeepLast(feed, n) ==
    IF Len(feed) > n THEN SubSeq(feed, Len(feed) - n + 1, Len(feed)) ELSE feed

\* lines 417-423
AppendActivity(feed, entry) ==
    IF Len(Append(feed, entry)) > ActivityCap
    THEN KeepLast(Append(feed, entry), ActivityCap) ELSE Append(feed, entry)

\* lines 433-436
SetError(table, cid, msg) ==
    IF cid \in DOMAIN table
    THEN [table EXCEPT ![cid].status = "error", ![cid].error = msg]
    ELSE table

\* lines 410-415
SetCompleted(table, cid) ==
    IF cid \in DOMAIN table
    THEN [table EXCEPT ![cid].status = "completed", ![cid].result = "success"]
    ELSE table

PipeFrame ==
    UNCHANGED <<queue, current_processing, lock, file, now, next_id, wcid,
                wstate, cpc, cloc, spc, scid, sloaded, loads, poolvars,
                ledgervars, extravars>>

\* the pipeline goes on to its next call
PipeGoOn(p, pc) ==
    /\ pl' = p
    /\ wpc' = pc
    /\ UNCHANGED <<client_requests, stats, recent_activity>>

\* lines 431-437: the handler of every exception of the pipeline
PipeFail(p, e) ==
    /\ pl' = [p EXCEPT !.exc = e]
    /\ client_requests' = SetError(client_requests, wcid, e.msg)
    /\ stats' = [stats EXCEPT !.total_errors = @ + 1]
    /\ wpc' = "complete"
    /\ UNCHANGED recent_activity

\* lines 409-427, once the notification has returned: the completed job,
\* the feed and the counters
PipeSucceed(p) ==
    /\ pl' = [p EXCEPT !.exc = NoExc]
    /\ client_requests' = SetCompleted(client_requests, wcid)
    /\ IF wcid \in DOMAIN client_requests
       THEN /\ recent_activity' =
                  AppendActivity(recent_activity,
                      [username |-> p.username, product_id |-> p.product,
                       timestamp |-> now])
            /\ stats' = [stats EXCEPT !.total_unlocks = @ + 1,
                                      !.daily_unlocks = @ + 1]
       ELSE UNCHANGED <<recent_activity, stats>>
    /\ wpc' = "complete"

\* mutant: every product the endpoint returns is accepted
ClassifyAny(p) == PipeGoOn(p, "p_notify")

\* lines 398-401, 428-429: the Gold entitlement against the allow-list
Classify(p) ==
    IF p.product \in subscription_ids
    THEN PipeGoOn(p, "p_notify")
    ELSE PipeFail(p, Exc("Restore purchase failed. Gold entitlement not found", FALSE))

\* lines 355-359
PipeStart ==
    /\ wpc = "process"
    /\ lock = "free"
    /\ IF wcid \notin DOMAIN client_requests
       THEN PipeGoOn(NoPipe, "complete")
       ELSE PipeGoOn([NoPipe EXCEPT !.username = client_requests[wcid].username],
                     "p_lookup")
    /\ PipeFrame
    /\ UNCHANGED <<tokens, cursor>>

\* lines 375-384 after a lookup that returned r
Resolved(p, r) ==
    IF Validate(r) # NoExc
    THEN PipeFail(p, Validate(r))
    ELSE PipeGoOn([p EXCEPT !.resolved = TRUE], "p_restore")

\* lines 363-366, 372-384: the first lookup
PipeLookup(r) ==
    /\ wpc = "p_lookup"
    /\ lock = "free"
    /\ LET p == [pl EXCEPT !.lookups = @ + 1, !.idresp = r]
       IN IF LookupExc(r) = NoExc THEN Resolved(p, r)
          ELSE IF LookupExc(r).marked
          THEN PipeGoOn([p EXCEPT !.exc = LookupExc(r)], "p_lookup_refresh")
          ELSE PipeFail(p, LookupExc(r))
    /\ PipeFrame
    /\ UNCHANGED <<tokens, cursor>>

\* lines 368 and 391: refresh_api_token() says whether there is a new token
PipeRefresh(refreshed) ==
    /\ wpc \in {"p_lookup_refresh", "p_restore_refresh"}
    /\ lock = "free"
    /\ LET p == [pl EXCEPT !.refreshes = @ + 1]
       IN IF refreshed
          THEN PipeGoOn(p, IF wpc = "p_lookup_refresh"
                           THEN "p_lookup_retry" ELSE "p_restore_retry")
          ELSE PipeFail(p, pl.exc)
    /\ PipeFrame
    /\ UNCHANGED <<tokens, cursor>>

\* line 369: the second lookup; what it raises goes to the handler
PipeLookupRetry(r) ==
    /\ wpc = "p_lookup_retry"
    /\ lock = "free"
    /\ LET p == [pl EXCEPT !.lookups = @ + 1, !.idresp = r]
       IN IF LookupExc(r) = NoExc THEN Resolved(p, r)
          ELSE PipeFail(p, LookupExc(r))
    /\ PipeFrame
    /\ UNCHANGED <<tokens, cursor>>

\* the locals after a call of restorePurchase
Called(p, rp) ==
    [p EXCEPT !.posts = IF rp.posted THEN @ + 1 ELSE @,
              !.picks = IF rp.pick = PyNone THEN @ ELSE Append(@, rp.pick),
              !.bans = @ \union rp.banned,
              !.product = rp.product,
              !.returned = (rp.exc = NoExc),
              !.dead = Append(@, rp.banned # {})]

\* lines 386-389, 395-401: the first call of restorePurchase
PipeRestore(resp) ==
    /\ wpc = "p_restore"
    /\ lock = "free"
    /\ LET rp == RestorePurchase(tokens, cursor, resp)
       IN /\ tokens' = rp.tokens
          /\ cursor' = rp.cursor
          /\ IF rp.exc = NoExc THEN Classify(Called(pl, rp))
             ELSE IF rp.exc.marked
             THEN PipeGoOn([Called(pl, rp) EXCEPT !.exc = rp.exc], "p_restore_refresh")
             ELSE PipeFail(Called(pl, rp), rp.exc)
    /\ PipeFrame

\* line 392: the second call; what it raises goes to the handler
PipeRestoreRetry(resp) ==
    /\ wpc = "p_restore_retry"
    /\ lock = "free"
    /\ LET rp == RestorePurchase(tokens, cursor, resp)
       IN /\ tokens' = rp.tokens
          /\ cursor' = rp.cursor
          /\ IF rp.exc = NoExc THEN Classify(Called(pl, rp))
             ELSE PipeFail(Called(pl, rp), rp.exc)
    /\ PipeFrame

\* notifications.py lines 6-28, called at queue_manager.py line 402 before
\* the job is marked: the notification is skipped (no bot token or chat id,
\* lines 10-12), requests.post returns, requests.post raises and the
\* exception is printed (lines 25-28), or Telegram accepts the connection and
\* never answers: requests.post is given no timeout and does not return
NotifyOutcomes == {"skipped", "sent", "post_raised", "no_answer"}

\* send_telegram_notification returns to _process_request
NotifyReturns(outcome) == outcome # "no_answer"

\* lines 402-427
PipeNotify(outcome) ==
    /\ wpc = "p_notify"
    /\ IF NotifyReturns(outcome)
       THEN lock = "free" /\ PipeSucceed(pl)
       ELSE PipeGoOn(pl, "p_notify_wait")
    /\ PipeFrame
    /\ UNCHANGED <<tokens, cursor>>

\* ----------------------------------------- get_recent, get_recent_activity
MaxLimit == 2           \* limits 0..MaxLimit
MaxFeed == 2            \* completed jobs in QueueManager.recent_activity
Limits == 0..MaxLimit

\* redis lrange(key, start, stop): both ends inclusive, a negative stop
\* counts from the end of the list, a stop past the end is the end
LRange(list, start, stop) ==
    SubSeq(list, start + 1,
           IF stop < 0 THEN Len(list) + stop + 1
           ELSE IF stop + 1 > Len(list) THEN Len(list) ELSE stop + 1)

\* RedisStatsTracker.get_recent, lines 219-228; the lrange may raise
GetRecent(limit, outcome) ==
    IF ~redis_client \/ outcome # "ok"
    THEN Prefix(mem_activity, limit)
    ELSE LRange(redis_activity, 0, limit - 1)

\* list[::-1]
Backwards(list) == [k \in 1..Len(list) |-> list[Len(list) - k + 1]]

\* list[-limit:]: -0 is 0, so a limit of 0 takes the list from its start
LastSlice(list, limit) ==
    IF limit = 0 \/ limit >= Len(list) THEN list
    ELSE SubSeq(list, Len(list) - limit + 1, Len(list))

\* QueueManager.get_recent_activity, lines 190-193
GetRecentActivity(feed, limit) == Backwards(LastSlice(feed, limit))

RecentFrame ==
    UNCHANGED <<jobvars, stats, tokens, cursor, pl, poolvars, redis_client,
                mem_activity, redis_activity, records, error_records,
                tracker_stats, today, extravars>>

\* a client asks the tracker for its recent activity
LedgerGetRecent(limit, outcome) ==
    /\ IF redis_client /\ outcome # "ok"
       THEN faults < MaxFaults /\ faults' = faults + 1
       ELSE outcome = "ok" /\ UNCHANGED faults
    /\ recent_reply' =
          [limit |-> limit, entries |-> GetRecent(limit, outcome),
           asked |-> TRUE, of |-> "tracker"]
    /\ recent_reply' # recent_reply
    /\ UNCHANGED recent_activity
    /\ RecentFrame

\* a client asks the queue manager for its activity feed
FeedGetRecent(limit) ==
    /\ recent_reply' =
          [limit |-> limit, entries |-> GetRecentActivity(recent_activity, limit),
           asked |-> TRUE, of |-> "queue"]
    /\ recent_reply' # recent_reply
    /\ UNCHANGED <<recent_activity, faults>>
    /\ RecentFrame

\* _process_request lines 417-423: a job completes and enters the feed
FeedGrows(product) ==
    /\ Len(recent_activity) < MaxFeed
    /\ recent_activity' =
          AppendActivity(recent_activity,
              [username |-> "alice", product_id |-> product, timestamp |-> now])
    /\ recent_reply' = NoReply
    /\ UNCHANGED faults
    /\ RecentFrame

\* ------------------------------------------- api.py: _update_rate_limit
\* an X-RateLimit-* header of a response: absent, a number, another text
HeaderValues == {"absent", "7", "8", "soon"}

\* int(text) succeeds
IsNumber(text) == text \in {"7", "8"}

\* lines 173-175: headers.get(name, headers.get(lower-case name)), which is
\* None for an absent header; lines 178-183: int() for remaining and limit,
\* the text is kept when int() raises ValueError
StoredHeader(value, convert) ==
    IF value = "absent" THEN PyNoneValue
    ELSE IF convert /\ IsNumber(value) THEN [type |-> "int", text |-> value]
    ELSE [type |-> "str", text |-> value]

\* lines 170-183, called after every post of restorePurchase (line 156)
UpdateRateLimit(h) ==
    /\ rate_limit_info' =
          [remaining |-> StoredHeader(h["remaining"], TRUE),
           limit |-> StoredHeader(h["limit"], TRUE),
           reset |-> StoredHeader(h["reset"], FALSE),
           last_updated |-> now,
           headers |-> h]
    /\ UNCHANGED <<jobvars, pipevars, poolvars, ledgervars, gate, gpc, disk,
                   tmp, save_errors, greply, http, tstore, fstats>>

\* ------------------------------------------------- the credential set
\* what an administrator submits: complete entries, an entry without its
\* fetch_token or app_transaction, an entry without a name
NewCredentials ==
    {Credential("K3", TRUE), Credential("K4", TRUE),
     Credential("K5", FALSE), Credential("", TRUE)}

\* mutant: every submitted entry is taken
ValidAny(e) == TRUE

\* the administrative append validates the required fields of an entry: its
\* name and the two fields restorePurchase needs (api.py lines 100-105)
Valid(e) == e.name # "" /\ e.complete

\* redis_store.py lines 241-258.  tokens is _mem_tokens without Redis and the
\* list at TOKENS_KEY with it; key says whether Redis has TOKENS_KEY.  A
\* missing key is answered with config.TOKEN_SETS, which is saved first.
get_tokens(toks, key) ==
    IF ~redis_client \/ key THEN toks ELSE DefaultTokens

\* redis_store.py lines 271-276: get_tokens, extend, save_tokens
append_tokens(toks, new_tokens) == toks \o new_tokens

\* the administrative append of one entry, served by request thread t: the
\* entry is stored, or the request is answered 400 and nothing is stored
AdminAppend(t, e) ==
    /\ IF Valid(e)
       THEN /\ Len(get_tokens(tokens, tstore.key)) < MaxTokens
            /\ tokens' = append_tokens(get_tokens(tokens, tstore.key), <<e>>)
            /\ tstore' = [tstore EXCEPT !.key = TRUE, !.cleared = FALSE,
                                        !.asked = FALSE, !.listed = <<>>]
            /\ UNCHANGED http
       ELSE /\ http[t] < MaxRejects
            /\ http' = [http EXCEPT ![t] = @ + 1]
            /\ UNCHANGED <<tokens, tstore>>
    /\ UNCHANGED <<jobvars, stats, recent_activity, cursor, pl, poolvars,
                   ledgervars, gate, gpc, disk, tmp, save_errors, greply,
                   rate_limit_info, fstats>>

TokenStoreFrame ==
    UNCHANGED <<jobvars, stats, recent_activity, cursor, pl, poolvars,
                ledgervars, gate, gpc, disk, tmp, save_errors, greply, http,
                rate_limit_info, fstats>>

\* redis_store.py lines 287-294: _mem_tokens = [], and with Redis the key
\* is deleted
clear_tokens ==
    /\ tokens' = <<>>
    /\ tstore' = [key |-> ~redis_client, cleared |-> TRUE, asked |-> FALSE,
                  listed |-> <<>>]
    /\ TokenStoreFrame

\* list(): a call of get_tokens, whose answer is kept in tstore.listed
ListTokens ==
    /\ tokens' = get_tokens(tokens, tstore.key)
    /\ tstore' = [tstore EXCEPT !.key = TRUE, !.asked = TRUE,
                                !.listed = get_tokens(tokens, tstore.key)]
    /\ TokenStoreFrame

\* ---------------------------------------------------------- AdmissionGate
\* The gate of the single-flight mode: try_acquire() never waits, and the
\* caller that got the gate runs the pipeline inline and releases the gate
\* on every exit path.

\* mutant: try_acquire() does not look at the gate
GateIgnored == TRUE

\* try_acquire(): nobody holds the gate
GateFree == gate = "free"

GateFrame ==
    UNCHANGED <<jobvars, pipevars, poolvars, ledgervars, disk, tmp,
                save_errors, greply, http,
                   latevars>>

\* try_acquire() -> bool: the gate is taken, or False is returned at once
GateTryAcquire(c) ==
    /\ gpc[c] = "idle"
    /\ IF GateFree
       THEN gate' = "held" /\ gpc' = [gpc EXCEPT ![c] = "running"]
       ELSE gate' = gate /\ gpc' = [gpc EXCEPT ![c] = "rejected"]
    /\ GateFrame

\* the request that was turned away is answered (no queueing, no waiting)
GateReject(c) ==
    /\ gpc[c] = "rejected"
    /\ gpc' = [gpc EXCEPT ![c] = "idle"]
    /\ UNCHANGED gate
    /\ GateFrame

\* the inline pipeline has ended, well or not: the gate is released
GateRelease(c) ==
    /\ gpc[c] = "running"
    /\ ppc[c] = "idle"
    /\ gate' = "free"
    /\ gpc' = [gpc EXCEPT ![c] = "idle"]
    /\ GateFrame

\* ------------------------------------------------------- crash and restart
\* The process dies at any point and is started again: __init__ lines 16-41
\* on fresh objects, _load_state on the file the dead process left.
Restart ==
    /\ loads < MaxLoads
    /\ loads' = loads + 1
    /\ \E order \in SortedOrders(file) :
          /\ client_requests' = LoadedTable(<<>>, file)
          /\ queue' = LoadedQueue(<<>>, file, order)
    /\ current_processing' = NoJob
    /\ lock' = "free"
    /\ wpc' = "get" /\ wcid' = NoJob /\ wstate' = <<>>
    /\ cpc' = [t \in Threads |-> "idle"]
    /\ cloc' = [t \in Threads |-> NoLocals]
    /\ spc' = "idle" /\ scid' = NoJob /\ sloaded' = FALSE
    /\ stats' = fstats
    /\ UNCHANGED <<file, now, next_id>>
    /\ UNCHANGED <<recent_activity, tokens, cursor, pl, poolvars, ledgervars,
                   extravars>>

\* __init__ when _load_state gives up (lines 146-147: the file lock is not
\* acquired within its timeout, as when the former process still holds it):
\* the new process starts with an empty table beside the snapshot.
RestartUnloaded ==
    /\ DOMAIN file # {}
    /\ client_requests' = <<>>
    /\ queue' = <<>>
    /\ current_processing' = NoJob
    /\ lock' = "free"
    /\ wpc' = "get" /\ wcid' = NoJob /\ wstate' = <<>>
    /\ cpc' = [t \in Threads |-> "idle"]
    /\ cloc' = [t \in Threads |-> NoLocals]
    /\ spc' = "idle" /\ scid' = NoJob /\ sloaded' = FALSE
    /\ stats' = NoCounts
    /\ UNCHANGED <<file, now, next_id, loads>>
    /\ UNCHANGED <<recent_activity, tokens, cursor, pl, poolvars, ledgervars,
                   extravars>>

\* ------------------------------------------- the durable store failing
\* The file part of _save_state, lines 69-90, as the worker runs it: the
\* bytes go to a temporary file of the same directory, which replaces
\* QUEUE_STATE_FILE once it is complete and synced.  A failure at any point
\* is caught, the temporary file is removed and the error is printed.

\* what comes after the worker's _save_state (lines 297 and 316)
AfterSave(pc) == IF pc = "save_write_1" THEN "process" ELSE "cleanup"

StoreFrame ==
    UNCHANGED <<pipevars, poolvars, ledgervars, gate, gpc, greply, http,
                   latevars>>

\* mutant: json.dump writes into QUEUE_STATE_FILE itself
WorkerSaveInPlace ==
    /\ wpc \in {"save_write_1", "save_write_2"}
    /\ tmp = "none"
    /\ tmp' = "partial"
    /\ disk' = "torn"
    /\ UNCHANGED <<jobvars, save_errors>>
    /\ StoreFrame

\* lines 71-74: mkstemp, and json.dump is under way
WorkerSaveTemp ==
    /\ wpc \in {"save_write_1", "save_write_2"}
    /\ tmp = "none"
    /\ tmp' = "partial"
    /\ UNCHANGED <<jobvars, disk, save_errors>>
    /\ StoreFrame

\* lines 74-78: json.dump is done, flush and fsync
WorkerSaveSync ==
    /\ wpc \in {"save_write_1", "save_write_2"}
    /\ tmp = "partial"
    /\ tmp' = "complete"
    /\ UNCHANGED <<jobvars, disk, save_errors>>
    /\ StoreFrame

\* line 81: os.replace(temp_path, QUEUE_STATE_FILE), and _save_state returns
WorkerSaveReplace ==
    /\ wpc \in {"save_write_1", "save_write_2"}
    /\ tmp = "complete"
    /\ file' = wstate
    /\ disk' = "complete"
    /\ tmp' = "none"
    /\ wstate' = <<>>
    /\ wpc' = AfterSave(wpc)
    /\ fstats' = stats
    /\ UNCHANGED <<client_requests, queue, current_processing, lock, now,
                   next_id, wcid, cpc, cloc, loads, spc, scid, sloaded,
                   save_errors>>
    /\ UNCHANGED <<pipevars, poolvars, ledgervars, gate, gpc, greply, http,
                   rate_limit_info, tstore>>

\* mutant: the failure leaves _save_state and ends the worker thread
WorkerSaveRaises ==
    /\ wpc \in {"save_write_1", "save_write_2"}
    /\ save_errors < MaxSaveErrors
    /\ save_errors' = save_errors + 1
    /\ tmp' = "none"
    /\ wstate' = <<>>
    /\ wpc' = "dead"
    /\ UNCHANGED <<client_requests, queue, current_processing, lock, file,
                   now, next_id, wcid, cpc, cloc, loads, spc, scid, sloaded,
                   disk>>
    /\ StoreFrame

\* lines 83-93: the file lock times out (89-90), or mkstemp, json.dump,
\* fsync or os.replace raises (83-88, 92-93): the temporary file is removed,
\* the error is printed and _save_state returns
WorkerSaveFails ==
    /\ wpc \in {"save_write_1", "save_write_2"}
    /\ save_errors < MaxSaveErrors
    /\ save_errors' = save_errors + 1
    /\ tmp' = "none"
    /\ wstate' = <<>>
    /\ wpc' = AfterSave(wpc)
    /\ UNCHANGED <<client_requests, queue, current_processing, lock, file,
                   now, next_id, wcid, cpc, cloc, loads, spc, scid, sloaded,
                   disk>>
    /\ StoreFrame

\* the same in add_to_queue's _save_state (line 167): add_to_queue returns
\* the client_id all the same (line 168)
AddSaveFails(t) ==
    /\ cpc[t] = "save_write"
    /\ save_errors < MaxSaveErrors
    /\ save_errors' = save_errors + 1
    /\ cpc' = [cpc EXCEPT ![t] = "idle"]
    /\ cloc' = [cloc EXCEPT ![t] = NoLocals]
    /\ UNCHANGED <<client_requests, queue, current_processing, lock, file,
                   now, next_id, wpc, wcid, wstate, loads, spc, scid, sloaded,
                   disk, tmp>>
    /\ StoreFrame

\* redis_store.py lines 260-269: a Redis command of save_tokens raises, the
\* error is logged and save_tokens returns
SaveTokensFails ==
    /\ redis_client
    /\ faults < MaxFaults
    /\ faults' = faults + 1
    /\ UNCHANGED <<jobvars, pipevars, poolvars, redis_client, mem_activity,
                   redis_activity, records, error_records, tracker_stats,
                   today, recent_reply, extravars>>

\* redis_store.py lines 150-187: a Redis command of add_success raises
AddSuccessFails(outcome) ==
    /\ outcome # "ok"
    /\ LedgerAddSuccess(outcome)

\* _load_state, lines 95-147: the table and the queue it leaves, for what it
\* finds at QUEUE_STATE_FILE.
\*   missing: os.path.exists is false, return (lines 96-97);
\*   torn (not JSON): json.load raises JSONDecodeError (lines 142-143);
\*   damaged (JSON, a record without its "added_at"): the loop of lines
\*     117-126 has put every record into the table when the sort of line 128
\*     raises KeyError (lines 144-145), before any queue.put;
\*   complete: the snapshot is loaded.
LoadOutcomes(table, q, kind, state) ==
    IF kind \in {"missing", "torn"} THEN {<<table, q>>}
    ELSE IF kind = "damaged"
    THEN {<<[c \in DOMAIN table \union DOMAIN state |->
                IF c \in DOMAIN state
                THEN [LoadRecord(state[c]) EXCEPT !.added_at = NoTime]
                ELSE table[c]], q>>}
    ELSE {<<LoadedTable(table, state), LoadedQueue(q, state, order)>> :
             order \in SortedOrders(state)}

\* The process dies at any point, a save under way included, and is started
\* again on what is at QUEUE_STATE_FILE; the temporary file of the dead
\* process stays behind under its own name.
StoreRestart ==
    /\ loads < MaxLoads
    /\ loads' = loads + 1
    /\ \E o \in LoadOutcomes(<<>>, <<>>, disk, file) :
          /\ client_requests' = o[1]
          /\ queue' = o[2]
    /\ current_processing' = NoJob
    /\ lock' = "free"
    /\ wpc' = "get" /\ wcid' = NoJob /\ wstate' = <<>>
    /\ cpc' = [t \in Threads |-> "idle"]
    /\ cloc' = [t \in Threads |-> NoLocals]
    /\ spc' = "idle" /\ scid' = NoJob /\ sloaded' = FALSE
    /\ tmp' = "none"
    /\ stats' = IF disk \in {"missing", "torn"} THEN NoCounts ELSE fstats
    /\ UNCHANGED <<file, now, next_id, disk, save_errors>>
    /\ UNCHANGED <<recent_activity, tokens, cursor, pl, poolvars, ledgervars,
                   gate, gpc, greply, http, latevars>>

\* Something outside the process truncates the snapshot, takes a key out of
\* one of its records, or deletes it.
DiskDamaged(kind) ==
    /\ disk = "complete"
    /\ file # <<>>
    /\ tmp = "none"
    /\ kind \in {"missing", "torn", "damaged"}
    /\ disk' = kind
    /\ UNCHANGED <<jobvars, tmp, save_errors>>
    /\ StoreFrame

\* ------------------------------------------------------------------ clock
Tick ==
    /\ now < MaxTime
    /\ now' = now + 1
    /\ UNCHANGED <<client_requests, queue, current_processing, lock, file,
                   next_id, wpc, wcid, wstate, cpc, cloc, loads, spc, scid, sloaded>>
    /\ UNCHANGED <<pipevars, poolvars, ledgervars, extravars>>

\* ------------------------------------------------------ specifications
WorkerStep ==
    \/ WorkerGet
    \/ WorkerMark
    \/ WorkerSaveCopy
    \/ WorkerSaveWrite
    \/ \E outcome \in Terminal : WorkerProcess(outcome)
    \/ WorkerComplete
    \/ WorkerCleanup
    \/ WorkerSleep

RequestStep(t) ==
    \/ \E u \in Usernames : AddBegin(t, u)
    \/ AddLocked(t)
    \/ AddSaveCopy(t)
    \/ AddSaveWrite(t)

StatusStep(read) ==
    \/ \E cid \in StatusIds : GetStatusLookup(cid, read)
    \/ GetStatusReply

\* One request thread, the worker, status polls, crashes, the clock; the
\* file lock is never held long enough for _load_state to give up.
Next ==
    \/ RequestStep(1)
    \/ StatusStep(TRUE)
    \/ WorkerStep
    \/ Restart
    \/ Tick

Spec == Init /\ [][Next]_vars

\* Concurrent request threads and the worker, in one process that keeps
\* running and is polled for known ids only.
NextConc ==
    \/ \E t \in Threads : RequestStep(t)
    \/ WorkerStep
    \/ Tick

SpecConc == Init /\ [][NextConc]_vars

\* Time passes while the worker waits for the queue, for a collaborator's
\* answer or for its sleep to end, and no request is being served.
QuietTick ==
    /\ wpc \in {"get", "process", "sleep"}
    /\ \A t \in Threads : cpc[t] = "idle"
    /\ Tick

\* A process that does not exit and whose threads all keep being scheduled.
RequestStepLive(t) ==
    \/ \E u \in Usernames : AddBeginLive(t, u)
    \/ AddLocked(t)
    \/ AddSaveCopy(t)
    \/ AddSaveWrite(t)

NextLive ==
    \/ RequestStepLive(1)
    \/ WorkerStep
    \/ QuietTick

LiveSpec ==
    /\ Init
    /\ [][NextLive]_vars
    /\ WF_vars(WorkerStep)
    /\ WF_vars(AddLocked(1) \/ AddSaveCopy(1) \/ AddSaveWrite(1))

\* A process that came up without its table and is polled for the ids the
\* former process handed out; _load_state may give up on the file lock.
NextStatus ==
    \/ RequestStep(1)
    \/ \E read \in BOOLEAN : StatusStep(read)
    \/ WorkerStep
    \/ RestartUnloaded

SpecStatus == Init /\ [][NextStatus]_vars

\* The worker with _process_request taken step by step, over every
\* configured credential set; no status polls, no crash, no clock.
PipeStep ==
    \/ PipeStart
    \/ \E r \in IdResponses : PipeLookup(r)
    \/ \E refreshed \in BOOLEAN : PipeRefresh(refreshed)
    \/ \E r \in IdResponses : PipeLookupRetry(r)
    \/ \E resp \in Responses : PipeRestore(resp)
    \/ \E resp \in Responses : PipeRestoreRetry(resp)
    \/ \E outcome \in NotifyOutcomes : PipeNotify(outcome)

NextPipe ==
    \/ RequestStep(1)
    \/ WorkerGet
    \/ WorkerMark
    \/ WorkerSaveCopy
    \/ WorkerSaveWrite
    \/ PipeStep
    \/ WorkerComplete
    \/ WorkerCleanup
    \/ WorkerSleep

InitPipe == InitQueue /\ InitDisk /\ tokens \in TokenSets /\ redis_client = FALSE

SpecPipe == InitPipe /\ [][NextPipe]_vars

\* The same for a worker thread that keeps being scheduled, with the
\* configured credentials.
WorkerPipeStep ==
    \/ WorkerGet
    \/ WorkerMark
    \/ WorkerSaveCopy
    \/ WorkerSaveWrite
    \/ PipeStep
    \/ WorkerComplete
    \/ WorkerCleanup
    \/ WorkerSleep

InitNotify == InitQueue /\ InitDisk /\ tokens = DefaultTokens /\ redis_client = FALSE

SpecNotify == InitNotify /\ [][NextPipe]_vars /\ WF_vars(WorkerPipeStep)

\* The worker with _process_request taken step by step, one job, and
\* status polls for an id that was never issued, with the configured
\* credentials.
NextCount ==
    \/ \E u \in Usernames : AddBeginUpTo(1, u, 1)
    \/ AddLocked(1)
    \/ AddSaveCopy(1)
    \/ AddSaveWrite(1)
    \/ GetStatusLookup(NoJob, TRUE)
    \/ GetStatusReply
    \/ WorkerPipeStep

SpecCount == InitNotify /\ [][NextCount]_vars

\* Two callers of the token store, over every configured credential set.
PoolStep(c) ==
    \/ NextBegin(c)
    \/ NextEnd(c)
    \/ PoolAnswer(c)
    \/ BanBegin(c)
    \/ BanEnd(c)

NextPool == \E c \in Callers : PoolStep(c)

InitPool == InitQueue /\ InitDisk /\ tokens \in PoolTokenSets /\ redis_client = FALSE

SpecPool == InitPool /\ [][NextPool]_vars

\* The tracker under a run of add_success and add_error calls, with and
\* without a Redis client.
NextLedger ==
    \/ \E outcome \in RedisOutcomes : LedgerAddSuccess(outcome)
    \/ \E outcome \in RedisOutcomes : LedgerAddError(outcome)
    \/ LedgerDayPasses

InitLedger == InitQueue /\ InitDisk /\ tokens = DefaultTokens /\ redis_client \in BOOLEAN

SpecLedger == InitLedger /\ [][NextLedger]_vars

\* The tracker and the queue manager's feed, recorded into and asked for
\* their recent entries.
NextRecent ==
    \/ LedgerAddSuccess("ok")
    \/ LedgerAddError("ok")
    \/ \E product \in subscription_ids : FeedGrows(product)
    \/ \E limit \in Limits : \E outcome \in {"ok", "fail"} :
          LedgerGetRecent(limit, outcome)
    \/ \E limit \in Limits : FeedGetRecent(limit)

SpecRecent == InitLedger /\ [][NextRecent]_vars

\* Request threads that serve POST /api/restore with every kind of
\* username, and the worker.
NextHandler ==
    \/ \E t \in Threads : \E u \in Submitted : restore_purchase(t, u)
    \/ \E t \in Threads : AddLocked(t) \/ AddSaveCopy(t) \/ AddSaveWrite(t)
    \/ WorkerStep

SpecHandler == Init /\ [][NextHandler]_vars

\* Request threads, the worker and a client that polls the global status.
NextGlobal ==
    \/ \E t \in Threads : RequestStep(t)
    \/ WorkerStep
    \/ GlobalStatusCall
    \/ GlobalStatusReturn

SpecGlobal == Init /\ [][NextGlobal]_vars

\* The worker with its _save_state taken step by step, one request thread,
\* a durable store that may fail at every use, and a crash at any point.
NextSave ==
    \/ RequestStep(1)
    \/ AddSaveFails(1)
    \/ WorkerGet
    \/ WorkerMark
    \/ WorkerSaveCopy
    \/ WorkerSaveTemp
    \/ WorkerSaveSync
    \/ WorkerSaveReplace
    \/ WorkerSaveFails
    \/ \E outcome \in Terminal : WorkerProcess(outcome)
    \/ WorkerComplete
    \/ WorkerCleanup
    \/ WorkerSleep
    \/ \E outcome \in RedisOutcomes : AddSuccessFails(outcome)
    \/ SaveTokensFails
    \/ StoreRestart

\* no snapshot has been written yet, or an empty one is there
InitSave ==
    /\ InitQueue
    /\ disk \in {"missing", "complete"}
    /\ tokens = DefaultTokens
    /\ redis_client = TRUE

SpecSave == InitSave /\ [][NextSave]_vars

\* The same with a snapshot that is damaged from outside the process.
NextLoad ==
    \/ NextSave
    \/ \E kind \in {"missing", "torn", "damaged"} : DiskDamaged(kind)

SpecLoad == InitSave /\ [][NextLoad]_vars

\* Administrators who append credentials to every configured set.
NextAdmin == \E t \in Threads : \E e \in NewCredentials : AdminAppend(t, e)

SpecAdmin == InitPipe /\ [][NextAdmin]_vars

\* The credential store in either backing mode: appended to, cleared and
\* listed.
NextStore ==
    \/ \E t \in Threads : \E e \in NewCredentials : AdminAppend(t, e)
    \/ clear_tokens
    \/ ListTokens

InitStore ==
    /\ InitQueue /\ InitDisk
    /\ tokens = DefaultTokens
    /\ redis_client \in BOOLEAN

SpecStore == InitStore /\ [][NextStore]_vars

\* Responses of the privileged endpoint with every combination of rate-limit
\* headers, as time passes.
NextRate ==
    \/ \E h \in [RateFields -> HeaderValues] : UpdateRateLimit(h)
    \/ Tick

SpecRate == Init /\ [][NextRate]_vars

\* The single-flight mode: requests try the gate, and the one that holds it
\* runs the pipeline's calls of the token store inline.
NextGate ==
    \/ \E c \in Callers : GateTryAcquire(c)
    \/ \E c \in Callers : GateReject(c)
    \/ \E c \in Callers : gpc[c] = "running" /\ PoolStep(c)
    \/ \E c \in Callers : GateRelease(c)

SpecGate == InitPool /\ [][NextGate]_vars

\* ------------------------------------------------------------ properties
Status(c) == client_requests[c].status
Processing == {c \in DOMAIN client_requests : Status(c) = "processing"}
Count(q, c) == Cardinality({i \in 1..Len(q) : q[i] = c})
Idle == /\ wpc = "get" /\ wcid = NoJob /\ current_processing = NoJob
        /\ \A t \in Threads : cpc[t] = "idle"
        /\ spc = "idle"

\* C1: the worker marks a job processing only when no job that is still
\* waiting has a strictly earlier added_at (FIFO by added_at).
C1_FifoByAddedAt ==
    [][\A c \in DOMAIN client_requests :
          (Status(c) # "processing" /\ c \in DOMAIN client_requests'
             /\ client_requests'[c].status = "processing")
          => \A d \in DOMAIN client_requests' :
                client_requests'[d].status = "waiting"
                => client_requests'[d].added_at >= client_requests'[c].added_at]_vars

\* C2: at most one job of the table has status processing.
C2_AtMostOneProcessing == Cardinality(Processing) <= 1

\* C2 witness: a job is processing, after a reload, with another job pending.
C2_Witness ==
    /\ loads > 0
    /\ \E c \in Processing : \E d \in DOMAIN client_requests :
          d # c /\ InQueue(queue, d) /\ current_processing = c

\* C3: every job in the table eventually has status completed or error.
C3_EveryJobEnds ==
    \A c \in Ids :
        (c \in DOMAIN client_requests)
            ~> (c \in DOMAIN client_requests /\ Status(c) \in Terminal)

Rank(st) == IF st = "waiting" THEN 0 ELSE IF st = "processing" THEN 1 ELSE 2

\* C4: in one process lifetime a job's status never goes from processing
\* back to waiting, and a completed or error job keeps its status.
C4_StatusMonotone ==
    [][Restart \/
       \A c \in DOMAIN client_requests \cap DOMAIN client_requests' :
          /\ Rank(client_requests'[c].status) >= Rank(Status(c))
          /\ Status(c) \in Terminal => client_requests'[c].status = Status(c)]_vars

\* C5: startup recovery leaves every persisted processing job waiting with
\* started_at cleared, and every persisted waiting or processing job is in
\* the pending queue exactly once.
C5_StartupRecovery ==
    [][Restart =>
        \A c \in DOMAIN file :
          /\ c \in DOMAIN client_requests'
          /\ file[c].status = "processing"
               => /\ client_requests'[c].status = "waiting"
                  /\ client_requests'[c].started_at = NoTime
          /\ file[c].status \in {"waiting", "processing"}
               => Count(queue', c) = 1]_vars

\* C5 witness: a freshly started process holds a job that the snapshot has
\* as processing.
C5_Witness ==
    /\ loads > 0 /\ Idle /\ wstate = <<>>
    /\ \E c \in DOMAIN file \cap DOMAIN client_requests :
          /\ file[c].status = "processing"
          /\ Status(c) = "waiting"
          /\ client_requests[c].started_at = NoTime
          /\ client_requests[c].completed_at = NoTime
          /\ Count(queue, c) = 1

\* add_to_queue has returned the id c to its caller
Returned(c) == c < next_id /\ \A t \in Threads : cloc[t].client_id # c

\* C6: a job whose add_to_queue has returned and that is in the table when
\* the process dies is in the table after the restart.
C6_AdmissionDurable ==
    [][(Restart /\ loads = 0) =>
        \A c \in DOMAIN client_requests :
            Returned(c) => c \in DOMAIN client_requests']_vars

C8_StatusReadOnly ==
    [][StatusStep(TRUE) =>
        /\ DOMAIN client_requests' = DOMAIN client_requests
        /\ \A c \in DOMAIN client_requests :
              /\ client_requests'[c].status = client_requests[c].status
              /\ client_requests'[c].started_at = client_requests[c].started_at
              /\ client_requests'[c].completed_at = client_requests[c].completed_at
              /\ client_requests'[c].result = client_requests[c].result
              /\ client_requests'[c].error = client_requests[c].error
        /\ queue' = queue
        /\ current_processing' = current_processing]_vars

\* The record get_status returns for the id it was called with.
Reply == StatusReply(client_requests, queue, current_processing, scid)

\* get_status says not_found only for an id that is not in the table and
\* that the snapshot does not have or _load_state did not read.
NotFoundOnlyWhenAbsent ==
    (GetStatusReply /\ Reply.status = "not_found")
        => /\ scid \notin DOMAIN client_requests
           /\ scid \notin DOMAIN file \/ ~sloaded

\* get_status reports the record the table holds when it answers.
ReportsTable ==
    (GetStatusReply /\ scid \in DOMAIN client_requests)
        => /\ Reply.status = Status(scid)
           /\ Reply.result = client_requests[scid].result
           /\ Reply.error = client_requests[scid].error

\* A get_status call for cid reloads a snapshot that has cid.
ReloadsJob(cid) ==
    /\ GetStatusLookup(cid, TRUE)
    /\ Reloads(client_requests, file, cid)
    /\ cid \in DOMAIN file

\* C9 (as claimed): get_status answers not_found only for an id that is in
\* neither the table nor the snapshot, and an id that is only in the snapshot
\* is reloaded and reported with its persisted status, result and error.
C9_ReloadReportsPersisted ==
    [][/\ (GetStatusReply /\ Reply.status = "not_found")
            => scid \notin DOMAIN client_requests /\ scid \notin DOMAIN file
       /\ ReportsTable
       /\ \A cid \in StatusIds :
            ReloadsJob(cid)
              => /\ cid \in DOMAIN client_requests'
                 /\ client_requests'[cid].status = file[cid].status
                 /\ client_requests'[cid].result = file[cid].result
                 /\ client_requests'[cid].error = file[cid].error]_vars

\* C9 (amended): not_found is also the answer when _load_state could not
\* read the snapshot, and a job persisted as processing comes back waiting.
C9_ReloadReportsRecovered ==
    [][/\ NotFoundOnlyWhenAbsent
       /\ ReportsTable
       /\ \A cid \in StatusIds :
            ReloadsJob(cid)
              => /\ cid \in DOMAIN client_requests'
                 /\ client_requests'[cid].status =
                       IF file[cid].status = "processing"
                       THEN "waiting" ELSE file[cid].status
                 /\ client_requests'[cid].result = file[cid].result
                 /\ client_requests'[cid].error = file[cid].error]_vars

\* C9 witness: the process came up empty, a poll brought back a job the
\* snapshot has as processing and one it has as completed or error, and is
\* about to answer for the first.
C9_Witness ==
    /\ loads > 0 /\ spc = "reply" /\ sloaded
    /\ scid \in DOMAIN file \cap DOMAIN client_requests
    /\ file[scid].status = "processing" /\ Status(scid) = "waiting"
    /\ \E d \in DOMAIN file \cap DOMAIN client_requests :
          file[d].status \in Terminal /\ Status(d) = file[d].status

\* What add_to_queue is to do to the table and the queue in its critical
\* section.
EnqueueEffect(t) ==
    LET cid == cloc[t].client_id
    IN /\ cid \notin DOMAIN client_requests
       /\ ~InQueue(queue, cid)
       /\ DOMAIN client_requests' = DOMAIN client_requests \union {cid}
       /\ client_requests'[cid].username = cloc[t].request_data.username
       /\ client_requests'[cid].status = "waiting"
       /\ client_requests'[cid].result = PyNone
       /\ client_requests'[cid].error = PyNone
       /\ client_requests'[cid].started_at = NoTime
       /\ client_requests'[cid].completed_at = NoTime
       /\ queue' = Append(queue, cid)
       /\ \A c \in DOMAIN client_requests : client_requests'[c] = client_requests[c]

\* C10: add_to_queue always succeeds (it is never left waiting for the lock),
\* and adds one new job with a fresh id: waiting, nothing else set, at the
\* tail of the queue, with every other job and queue position as before.
C10_EnqueueAlwaysAdds ==
    [][/\ \A t \in Threads : cpc'[t] = "add_lock" => lock' = "free"
       /\ \A t \in Threads : AddLocked(t) => EnqueueEffect(t)]_vars

\* The effect alone, of an add_to_queue that gets the lock.
EnqueueEffectHolds ==
    [][\A t \in Threads : AddLocked(t) => EnqueueEffect(t)]_vars

\* C11: the position get_status reports is 0 exactly when the job is
\* processing, completed or error, and for a waiting job it is the job's
\* 1-based place in the pending queue.
C11_PositionMatchesStatus ==
    [][(GetStatusReply /\ scid \in DOMAIN client_requests) =>
        /\ Reply.position = 0
              <=> Status(scid) \in {"processing", "completed", "error"}
        /\ Status(scid) = "waiting"
              => /\ Count(queue, scid) = 1
                 /\ Reply.position = IndexOf(queue, scid)]_vars

\* the step on which _process_request ends for a job of the table
PipeEnds ==
    /\ wpc \in {"p_lookup", "p_lookup_refresh", "p_lookup_retry",
                 "p_restore", "p_restore_refresh", "p_restore_retry",
                 "p_notify"}
    /\ wpc' = "complete"
    /\ wcid \in DOMAIN client_requests

C13_WorkerGoesOnAfterError ==
    \A c \in Ids : \A d \in Ids :
        (/\ c # d
         /\ wpc = "complete" /\ wcid = c
         /\ c \in DOMAIN client_requests
         /\ Status(c) = "error" /\ client_requests[c].error # PyNone
         /\ queue # <<>> /\ d = Head(queue)
         /\ d \in DOMAIN client_requests /\ Status(d) = "waiting")
            ~> (d \in DOMAIN client_requests /\ Status(d) # "waiting")

\* the calls of restorePurchase made for the job the pipeline has ended for
Calls == Len(pl.dead)

\* C14: for one processing of a job restorePurchase is called at most twice;
\* a call that finds its credential dead bans that credential and no other;
\* and when the first call finds its credential dead, the call is made once
\* more, and a second dead credential leaves the job in status error.
C14_DeadCredentialRetriedOnce ==
    (wpc = "complete" /\ wcid \in DOMAIN client_requests) =>
        /\ Calls <= 2
        /\ pl.bans = {pl.picks[i] : i \in {j \in 1..Calls : pl.dead[j]}}
        /\ (Calls >= 1 /\ pl.dead[1]) =>
              /\ Calls = 2
              /\ pl.dead[2] => Status(wcid) = "error"

\* restorePurchase is called on this step
RestoreCalled ==
    /\ wpc \in {"p_restore", "p_restore_retry"}
    /\ Len(pl'.dead) = Len(pl.dead) + 1

\* C17: when restorePurchase is called while no credential is live (all are
\* banned, or none is configured), no credential is selected, no request is
\* posted, and the job ends in status error with a non-empty message.
C17_NoCredentialNoCall ==
    [][(RestoreCalled /\ Live(tokens) = {}) =>
        /\ pl'.posts = pl.posts
        /\ pl'.picks = pl.picks
        /\ wpc' = "complete"
        /\ wcid \in DOMAIN client_requests'
        /\ client_requests'[wcid].status = "error"
        /\ client_requests'[wcid].error \notin {PyNone, ""}]_vars

\* a job ended in error without a request after both credentials were banned
C17_Witness ==
    /\ wpc = "complete"
    /\ tokens # <<>> /\ Live(tokens) = {}
    /\ Calls = 1 /\ pl.picks = <<>> /\ pl.posts = 0
    /\ wcid \in DOMAIN client_requests
    /\ Status(wcid) = "error"

\* a lookup ends on this step without a user, a result, user data or a uid
IdentityFails ==
    /\ wpc \in {"p_lookup", "p_lookup_retry"}
    /\ pl'.lookups = pl.lookups + 1
    /\ pl'.idresp \in {"raise_not_found", "no_result", "no_data", "no_uid"}

\* C18: a lookup that finds no user, no result, no user data or no uid ends
\* the job at once in status error: restorePurchase has not been and is not
\* called for it and nothing is tried again; and restorePurchase is only
\* ever called for a job whose lookup returned a uid.
C18_IdentityBeforePrivileged ==
    [][/\ IdentityFails =>
            /\ wpc' = "complete"
            /\ wcid \in DOMAIN client_requests'
            /\ client_requests'[wcid].status = "error"
            /\ client_requests'[wcid].error # PyNone
            /\ pl'.dead = <<>> /\ pl'.posts = 0
            /\ pl'.refreshes = pl.refreshes
       /\ RestoreCalled => (pl.resolved /\ pl.idresp = "ok")]_vars

\* a job whose lookup returned no user data has ended in error without a
\* call of restorePurchase, after a job for which the call was made
C18_Witness ==
    /\ wpc = "complete"
    /\ pl.idresp = "no_data" /\ pl.lookups = 1 /\ Calls = 0
    /\ wcid \in DOMAIN client_requests
    /\ Status(wcid) = "error"
    /\ stats.total_unlocks = 1

\* the credentials whose ban() completed before the k-th logged operation
BannedBefore(k) ==
    {hist[j].i : j \in {x \in 1..(k - 1) : hist[x].op = "ban"}}

\* the credentials live at the k-th logged operation
LiveAt(k) == (1..Len(tokens)) \ BannedBefore(k)

\* C15: next() never returns a banned credential: a credential whose ban()
\* has completed is returned by no later next() call, whatever the order of
\* the next() and ban() calls.
C15_NeverReturnsBanned ==
    \A k \in 1..Len(hist) :
        hist[k].op = "next" => hist[k].i \notin BannedBefore(k)

\* a credential was banned, two next() calls came after the ban, and each
\* returned a credential
C15_Witness ==
    \E k \in 1..Len(hist) :
        /\ hist[k].op = "ban"
        /\ k + 2 <= Len(hist)
        /\ hist[k + 1].op = "next" /\ hist[k + 1].i # NoToken
        /\ hist[k + 2].op = "next" /\ hist[k + 2].i # NoToken

\* b is the live credential after a in configured order, cyclically
FollowsInCycle(L, a, b) ==
    IF \E j \in L : j > a
    THEN b > a /\ ~(\E j \in L : a < j /\ j < b)
    ELSE \A j \in L : b <= j

\* the k-th logged operation begins a run of n next() calls
NextRun(k, n) ==
    /\ k + n - 1 <= Len(hist)
    /\ \A j \in k..(k + n - 1) : hist[j].op = "next"

\* C16: over consecutive next() calls with no ban in between the live
\* credentials come back cyclically in configured order, each once per
\* cycle; with [K1, K2] and K1 banned two consecutive next() calls return
\* K2 and K2.
C16_RoundRobin ==
    \A k \in 1..Len(hist) :
        LiveAt(k) # {} =>
            /\ hist[k].op = "next" => hist[k].i \in LiveAt(k)
            /\ NextRun(k, 2) => FollowsInCycle(LiveAt(k), hist[k].i, hist[k + 1].i)
            /\ NextRun(k, Cardinality(LiveAt(k))) =>
                  {hist[j].i : j \in k..(k + Cardinality(LiveAt(k)) - 1)} = LiveAt(k)
            /\ (Len(tokens) = 2 /\ LiveAt(k) = {2} /\ NextRun(k, 2)) =>
                  (hist[k].i = 2 /\ hist[k + 1].i = 2)

\* of three credentials the first was returned and banned, and the next
\* three calls returned the second, the third and the second again
C16_Witness ==
    /\ Len(tokens) = 3
    /\ Len(hist) >= 5
    /\ hist[1] = Ev("next", 1) /\ hist[2] = Ev("ban", 1)
    /\ hist[3] = Ev("next", 2) /\ hist[4] = Ev("next", 3)
    /\ hist[5] = Ev("next", 2)

\* callers inside get_next_token() or ban_token()
InPool == {c \in Callers : ppc[c] \in {"next", "ban"}}

C20_RingBufferBounded ==
    /\ Len(Recent) <= LedgerCap
    /\ Len(Recent) = (IF records < LedgerCap THEN records ELSE LedgerCap)
    /\ \A k \in 1..Len(Recent) : Recent[k].n = records - k + 1

\* without a Redis client: the in-memory list is bounded and holds the most
\* recent records
LedgerMemoryBounded ==
    ~redis_client =>
        /\ Len(mem_activity) = (IF records < LedgerCap THEN records ELSE LedgerCap)
        /\ \A k \in 1..Len(mem_activity) : mem_activity[k].n = records - k + 1

\* with a Redis client whose commands have all succeeded so far
LedgerRedisBoundedWithoutFaults ==
    (redis_client /\ faults = 0) =>
        /\ Len(redis_activity) = (IF records < LedgerCap THEN records ELSE LedgerCap)
        /\ \A k \in 1..Len(redis_activity) : redis_activity[k].n = records - k + 1

\* the list the reply was read from, newest first
AskedOf ==
    IF recent_reply.of = "tracker" THEN Recent ELSE Backwards(recent_activity)

\* C21: whatever the ledger holds and for every limit >= 0, the reply to
\* recent(limit) has at most limit entries, and they are the newest entries
\* of the ledger, newest first.
C21_RecentAtMostLimit ==
    recent_reply.asked =>
        /\ Len(recent_reply.entries) <= recent_reply.limit
        /\ recent_reply.entries = Prefix(AskedOf, recent_reply.limit)

\* add_success or add_error is called on this step
Recorded == records' = records + 1

\* C22: each add_success adds one to the total of the successes, each
\* add_error one to the total of the errors; each adds one to the bucket of
\* the current date and puts one entry at the head of the list; no other
\* total and no other bucket changes.
C22_RecordCountsOnce ==
    [][Recorded =>
        /\ tracker_stats'.total_unlocks =
              tracker_stats.total_unlocks
                  + (IF error_records' = error_records THEN 1 ELSE 0)
        /\ tracker_stats'.total_errors =
              tracker_stats.total_errors
                  + (IF error_records' = error_records THEN 0 ELSE 1)
        /\ \A d \in Days :
              tracker_stats'.daily_unlocks[d] =
                  tracker_stats.daily_unlocks[d] + (IF d = today THEN 1 ELSE 0)
        /\ Recent' # <<>>
        /\ Recent'[1].n = records'
        /\ \A k \in 2..Len(Recent') : Recent'[k] = Recent[k - 1]]_vars

\* the requests that hold the gate
Holders == {c \in Callers : gpc[c] = "running"}

\* C23: the gate is single-flight.  In every reachable state at most one
\* execution holds it, and it is held exactly while one does; a
\* try_acquire() made while it is held returns False at once, and one made
\* while it is free (at the start, or after the holder's release) succeeds.
C23_SingleFlight ==
    /\ [](/\ Cardinality(Holders) <= 1
          /\ gate = "held" <=> Holders # {})
    /\ [][\A c \in Callers :
            gpc[c] = "idle" /\ gpc'[c] # "idle" =>
                /\ Holders # {} => gpc'[c] = "rejected" /\ Holders' = Holders
                /\ Holders = {} => gpc'[c] = "running"]_vars

\* one request holds the gate while calls of the pipeline have been made
\* under it, and another request has just been turned away
C23_Witness ==
    \E c, d \in Callers :
        /\ gpc[c] = "running" /\ gpc[d] = "rejected"
        /\ hist # <<>>

\* the usernames of the jobs in the table, on the way into it, or queued
Admitted ==
    {client_requests[c].username : c \in DOMAIN client_requests}
        \union {cloc[t].request_data.username :
                    t \in {u \in Threads : cloc[u].client_id # NoJob}}

\* C24: a submission whose username is missing or empty is turned away in
\* the handler, before add_to_queue: no job of the table and no job on its
\* way into the table has such a username, and the step that answers 400
\* leaves the job table, the queue, the id counter and the thread's locals
\* as they were.
C24_EmptyUsernameRejected ==
    /\ [](Admitted \cap {PyNone, ""} = {})
    /\ [][\A t \in Threads :
            http'[t] # http[t] =>
                UNCHANGED <<client_requests, queue, next_id, cpc, cloc, file>>]_vars

\* a submission was turned away before any job was created, and another
\* was admitted after it
C24_Witness ==
    /\ http[1] > 0
    /\ next_id = 2
    /\ DOMAIN client_requests = {1}
    /\ queue = <<1>>

\* a use of the durable store fails in this step
StoreFailure == save_errors' # save_errors \/ faults' # faults

\* C25: a failure of the durable store (the snapshot cannot be written, the
\* file lock times out, a Redis command raises) is not raised to the caller:
\* the step leaves the job table, the queue and current_processing as a
\* successful write leaves them, add_to_queue returns to its caller and the
\* worker goes on to what follows the save.
C25_StoreFailureNotRaised ==
    [][StoreFailure =>
        /\ UNCHANGED <<client_requests, queue, current_processing, file>>
        /\ wpc' # wpc => wpc' = AfterSave(wpc)
        /\ \A t \in Threads : cpc'[t] # cpc[t] => cpc'[t] = "idle"]_vars

\* every save failed and a Redis command raised, and a job was admitted and
\* processed to its end all the same
C25_Witness ==
    /\ save_errors = MaxSaveErrors
    /\ faults = MaxFaults
    /\ loads = 0
    /\ file = <<>>
    /\ \E c \in DOMAIN client_requests : Status(c) \in Terminal

\* _load_state has run in this step
Loaded == loads' # loads

\* C26: _load_state on a missing or unreadable snapshot leaves the table and
\* the queue empty (the process has just started): no job comes out of a
\* snapshot that could not be read.
C26_UnreadableLoadsNothing ==
    [][Loaded /\ disk # "complete" =>
        client_requests' = <<>> /\ queue' = <<>>]_vars

\* the same for a snapshot that is missing or is not JSON
UnparsableLoadsNothing ==
    [][Loaded /\ disk \in {"missing", "torn"} =>
        client_requests' = <<>> /\ queue' = <<>>]_vars

\* the process came up on a snapshot that is not JSON, with an empty table
UnparsableLoaded ==
    /\ loads = 1 /\ disk = "torn" /\ file # <<>>
    /\ client_requests = <<>> /\ queue = <<>>

\* C27: a snapshot is written all or nothing.  What is at QUEUE_STATE_FILE
\* is never a torn file, and a step changes it only from one complete
\* snapshot to the complete new one that the saving thread has copied from
\* the table, whatever the point at which the process dies.
C27_SnapshotAllOrNothing ==
    /\ [](disk \in {"missing", "complete"})
    /\ [][file' # file =>
            /\ disk' = "complete"
            /\ \/ file' = wstate /\ tmp = "complete"
               \/ \E t \in Threads : cpc[t] = "save_write" /\ file' = cloc[t].state]_vars

\* a save has written a part of its temporary file while the complete
\* snapshot of an earlier save is at QUEUE_STATE_FILE, and the process may
\* die here
C27_Witness ==
    /\ tmp = "partial"
    /\ loads = 0
    /\ disk = "complete"
    /\ file # <<>>
    /\ wstate # file

\* the privileged call has returned a listed product for the worker's job,
\* and the notification is to be sent
NotifyDue == wpc = "p_notify" /\ wcid \in DOMAIN client_requests

\* C28: the notification neither blocks nor fails the pipeline: a job for
\* which restorePurchase returned a listed product ends completed, whatever
\* becomes of the notification.
C28_NotifyNeverBlocks ==
    NotifyDue ~> (/\ wpc = "complete"
                  /\ wcid \in DOMAIN client_requests
                  /\ Status(wcid) = "completed")

\* when send_telegram_notification returns, having sent the message, skipped
\* it or caught the failure of the post, the job is completed
NotifyReturnedCompletes ==
    [][(NotifyDue /\ wpc' \notin {"p_notify", "p_notify_wait"}) =>
        /\ wpc' = "complete"
        /\ client_requests'[wcid].status = "completed"
        /\ stats'.total_errors = stats.total_errors]_vars

\* the jobs of the table that are waiting or processing
Pending ==
    {c \in DOMAIN client_requests : Status(c) \in {"waiting", "processing"}}

\* get_global_status answers on this step
GlobalAnswered == ~greply.asked /\ greply'.asked

\* C29: get_global_status reports idle exactly when no job of the table is
\* waiting or processing, and its total is the number of those jobs.
C29_GlobalStatusMatchesTable ==
    [][GlobalAnswered =>
        /\ (greply'.status = "idle") <=> (Pending = {})
        /\ greply'.total_queue = Cardinality(Pending)]_vars

\* the report is right except while the worker has taken a job off the queue
\* and not yet marked it, or has ended a job and not yet cleared
\* current_processing
GlobalStatusRightAtRest ==
    [][(GlobalAnswered /\ wpc \notin {"mark", "complete"}) =>
        /\ (greply'.status = "idle") <=> (Pending = {})
        /\ greply'.total_queue = Cardinality(Pending)]_vars

\* an append is answered on this step
AppendAnswered == tokens' # tokens \/ http' # http

C31_MissingHeaderKeepsValue ==
    [][rate_limit_info' # rate_limit_info =>
        \A f \in RateFields :
            rate_limit_info'.headers[f] = "absent" =>
                rate_limit_info'[f] = rate_limit_info[f]]_vars

\* a header that is present is recorded: as a number for remaining and
\* limit when it is one, as its text otherwise
PresentHeaderRecorded ==
    \A f \in RateFields :
        rate_limit_info.headers[f] # "absent" =>
            /\ rate_limit_info[f].text = rate_limit_info.headers[f]
            /\ rate_limit_info[f].type =
                  IF f # "reset" /\ IsNumber(rate_limit_info.headers[f])
                  THEN "int" ELSE "str"

\* the step has put one entry for the worker's job behind the activity feed
FeedEntryAdded ==
    /\ Len(recent_activity') = Len(recent_activity) + 1
    /\ \A i \in 1..Len(recent_activity) : recent_activity'[i] = recent_activity[i]
    /\ recent_activity'[Len(recent_activity')].username =
          client_requests[wcid].username

\* C32: every job the worker brings to a terminal status, completed or
\* error, puts exactly one entry for the job's username into the recent
\* activity.
C32_TerminalJobRecorded ==
    [][PipeEnds => FeedEntryAdded]_vars

\* a job that ends completed puts exactly one entry into the feed, and a job
\* that ends in error leaves the feed as it is
CompletedJobRecorded ==
    [][PipeEnds =>
        IF client_requests'[wcid].status = "completed"
        THEN FeedEntryAdded
        ELSE recent_activity' = recent_activity]_vars

\* _cleanup_old_requests runs on this step
Reaped == wpc = "cleanup" /\ wpc' \in {"sleep", "cleanup_save"}

C34_LockReleased == (lock # "free") ~> (lock = "free")

\* C35: a worker that has run a job is back at queue.get only after the
\* cooldown sleep, whichever way the job's completion bookkeeping ended; the
\* other ways to queue.get are a pulled id that is not in the table, for
\* which nothing was run, and a new process.
C35_CooldownBeforeNextJob ==
    [][(wpc' = "get" /\ wpc # "get") =>
          (Restart \/ wpc \in {"sleep", "mark"})]_vars

\* C36: no id is in the pending queue more than once, and every id of the
\* pending queue is a job of the table with status waiting.
C36_QueueHoldsWaitingOnce ==
    \A i \in 1..Len(queue) :
        /\ queue[i] \in DOMAIN client_requests
        /\ client_requests[queue[i]].status = "waiting"
        /\ \A j \in 1..Len(queue) : queue[j] = queue[i] => j = i

\* C37: whenever the lock is free, current_processing is None or names a
\* job of the table whose status is processing, and every job whose status is
\* processing is the one current_processing names.
C37_CursorNamesProcessing ==
    lock = "free" =>
        /\ current_processing # NoJob =>
              /\ current_processing \in DOMAIN client_requests
              /\ client_requests[current_processing].status = "processing"
        /\ \A c \in DOMAIN client_requests :
              client_requests[c].status = "processing" => current_processing = c

\* C38: when no enqueue, no worker transition and no reaper step is in
\* progress and every save has returned, the snapshot on disk holds the job
\* table as it is in memory, whichever way the saves of the request threads
\* and of the worker interleave.
C38_SnapshotTracksMemory == Idle => file = SnapshotOf(client_requests)

\* a run of _process_request returns on this step
ExecutionEnds ==
    /\ wpc \in {"process", "p_lookup", "p_lookup_refresh", "p_lookup_retry",
                 "p_restore", "p_restore_refresh", "p_restore_retry",
                 "p_notify"}
    /\ wpc' = "complete"

\* C39: total_unlocks counts the runs of the pipeline that ended completed
\* and total_errors those that ended error: a run that ends adds one to the
\* counter of its outcome and leaves the other, and no other step changes
\* either counter.
C39_CountersMatchExecutions ==
    [][IF ExecutionEnds
       THEN /\ wcid \in DOMAIN client_requests'
            /\ \/ /\ client_requests'[wcid].status = "completed"
                  /\ stats'.total_unlocks = stats.total_unlocks + 1
                  /\ stats'.total_errors = stats.total_errors
               \/ /\ client_requests'[wcid].status = "error"
                  /\ stats'.total_unlocks = stats.total_unlocks
                  /\ stats'.total_errors = stats.total_errors + 1
       ELSE /\ stats'.total_unlocks = stats.total_unlocks
            /\ stats'.total_errors = stats.total_errors]_vars

\* C40: after clear_tokens the credential set is empty in either backing
\* mode until credentials are appended: a list() made since then has
\* returned no credential, and get_tokens hands no live credential to next().
C40_ClearedStaysEmpty ==
    tstore.cleared =>
        /\ tstore.asked => tstore.listed = <<>>
        /\ Live(get_tokens(tokens, tstore.key)) = {}

\* the same for the in-memory mode alone
ClearedStaysEmptyInMemory == ~redis_client => C40_ClearedStaysEmpty
====
